---- MODULE Spec2Model ----
(***************************************************************************)
(* Time Travel extension: the persisted GlobalState (util/storage.ts), the *)
(* callers that write it (popup setGlobalFakeTime, the API bridge and the  *)
(* worker's updateGlobalStateFromAPI handler), and the worker that copies  *)
(* it into each tab's session storage (scripts/worker.ts, concatenated in  *)
(* src/src/util/storage.ts from line 84 on). Beside them: the Clock Engine *)
(* that answers a page's date reads, the popup's per-tab setFakeDate, the  *)
(* API client's sendMessage, and the worker's getGlobalState and           *)
(* reapplyGlobalState messages, each with a specification of its own.      *)
(*                                                                         *)
(* Every `await` of the source is a point where another handler may run:   *)
(* each action below is the code between two awaits.                       *)
(*                                                                         *)
(* Left out: the badge and title updates and registerContentScript. The   *)
(* seeding that send_active does once per document load (it writes the     *)
(* session storage only when global mode is enabled with a fake date, and  *)
(* removes nothing) is part of SendActive, a step of SpecRegistry alone.   *)
(***************************************************************************)
EXTENDS Integers, Sequences, FiniteSets, TLC

\* ------------------------------------------------------------------ bounds
\* Real time runs from 0 to MaxNow (Date.now()).
MaxNow == 1
\* Undelivered chrome.storage.onChanged events.
MaxPending == 1
\* The real clock of a page that reads the date runs from 0 to MaxReal.
MaxReal == 3

\* ------------------------------------------------------------ JS values
Null == "null"
Undefined == "undefined"
\* A boolean that may be omitted is the string of its value.
JsTrue == "true"
JsFalse == "false"
OptBool == {JsTrue, JsFalse, Undefined}

\* Date strings a caller may pass.
D1 == "2023-12-25T10:30:00.000Z"
D2 == "2024-01-01T00:00:00.000Z"
BadDate == "not-a-date"
EmptyStr == ""
ValidDates == {D1, D2}
DateInputs == {Undefined, EmptyStr, BadDate, D1, D2}

\* JS truthiness of a string-or-null-or-undefined value.
Truthy(v) == v \notin {Null, Undefined, EmptyStr, JsFalse}

\* Date.now().toString()
TimestampStr(n) == ToString(n)

\* new Date(s).getTime(): NaN unless s is a date string.
NaN == -1
DateParse(s) == IF s = D1 THEN 100 ELSE IF s = D2 THEN 200 ELSE NaN

\* parseDate of util/common: null when the input is no date, else the date
\* as a string.
parseDate(s) == IF DateParse(s) = NaN THEN Null ELSE s

\* ---------------------------------------------------------- GlobalState
FieldNames == {"isGlobalEnabled", "fakeDate", "tickStartTimestamp", "isClockStopped"}

DEFAULT_STATE ==
    [isGlobalEnabled |-> FALSE, fakeDate |-> Null,
     tickStartTimestamp |-> Null, isClockStopped |-> TRUE]

\* A Partial<GlobalState>: the fields it names and their values.
Partial(fields, v) == [fields |-> fields, v |-> v]
NoPartial == Partial({}, DEFAULT_STATE)

\* { ...currentState, ...state }
Merge(currentState, state) ==
    [f \in FieldNames |-> IF f \in state.fields THEN state.v[f] ELSE currentState[f]]

\* getGlobalState's catch returning what was last persisted.
getGlobalStateOrDefault_lastRecord(record, getRejects) ==
    IF record = <<>> THEN DEFAULT_STATE ELSE record[1]

\* getGlobalState: { ...DEFAULT_STATE, ...storedState } of the record under
\* STORAGE_KEYS.GLOBAL_STATE; `record` is <<>> when nothing is stored.
getGlobalState(record) ==
    IF record = <<>> THEN DEFAULT_STATE
    ELSE Merge(DEFAULT_STATE, Partial(FieldNames, record[1]))

\* ---------------------------------------------------------------- calls
\* One call of a storage.ts function: its name and arguments.
Call(op, date, flag, ts) == [op |-> op, date |-> date, flag |-> flag, ts |-> ts]
NoCall == Call("none", Null, Undefined, Undefined)

\* updateGlobalFakeDate(fakeDate): setGlobalState({ fakeDate })
updateGlobalFakeDate(fakeDate) ==
    Partial({"fakeDate"}, [DEFAULT_STATE EXCEPT !.fakeDate = fakeDate])

\* updateGlobalClockState without its isClockStopped branch: the anchor passed
\* is stored also for a stopped clock.
updateGlobalClockState_keepsAnchor(isClockStopped, tickStartTimestamp, t) ==
    Partial({"isClockStopped", "tickStartTimestamp"},
            [DEFAULT_STATE EXCEPT
                !.isClockStopped = isClockStopped,
                !.tickStartTimestamp =
                    IF ~Truthy(tickStartTimestamp) THEN TimestampStr(t)
                    ELSE tickStartTimestamp])

\* updateGlobalClockState(isClockStopped, tickStartTimestamp?) called at real
\* time t: the partial it hands to setGlobalState.
updateGlobalClockState(isClockStopped, tickStartTimestamp, t) ==
    LET finalTickStartTimestamp ==
            IF ~isClockStopped /\ ~Truthy(tickStartTimestamp) THEN TimestampStr(t)
            ELSE IF isClockStopped THEN Null
            ELSE tickStartTimestamp
    IN  Partial({"isClockStopped", "tickStartTimestamp"},
                [DEFAULT_STATE EXCEPT
                    !.isClockStopped = isClockStopped,
                    !.tickStartTimestamp = finalTickStartTimestamp])

\* setGlobalEnabled(enabled): setGlobalState({ isGlobalEnabled: enabled })
setGlobalEnabled(enabled) ==
    Partial({"isGlobalEnabled"}, [DEFAULT_STATE EXCEPT !.isGlobalEnabled = enabled])

\* updateGlobalStateFromAPI leaving the stored fake date as it is.
updateGlobalStateFromAPI_keepsDate(fakeDate, isClockStopped, t) ==
    Partial(FieldNames \ {"fakeDate"},
            [isGlobalEnabled |-> TRUE,
             fakeDate |-> fakeDate,
             isClockStopped |-> IF isClockStopped = Undefined THEN TRUE
                                ELSE isClockStopped = JsTrue,
             tickStartTimestamp |-> IF Truthy(isClockStopped) THEN Null ELSE TimestampStr(t)])

\* The worker's updateGlobalStateFromAPI handler, run at real time t on a
\* message with the given fakeDate and isClockStopped (a boolean or omitted).
updateGlobalStateFromAPI(fakeDate, isClockStopped, t) ==
    LET tickStartTimestamp ==
            IF Truthy(isClockStopped) THEN Null ELSE TimestampStr(t)
    IN  Partial(FieldNames,
                [isGlobalEnabled |-> TRUE,
                 fakeDate |-> fakeDate,
                 isClockStopped |-> IF isClockStopped = Undefined THEN TRUE
                                    ELSE isClockStopped = JsTrue,
                 tickStartTimestamp |-> tickStartTimestamp])

\* The partial a call hands to setGlobalState when it starts at real time t.
PartialOf(call, t) ==
    CASE call.op = "updateGlobalFakeDate" -> updateGlobalFakeDate(call.date)
      [] call.op = "updateGlobalClockState" ->
            updateGlobalClockState(call.flag = JsTrue, call.ts, t)
      [] call.op = "setGlobalEnabled" -> setGlobalEnabled(call.flag = JsTrue)
      [] call.op = "updateGlobalStateFromAPI" ->
            updateGlobalStateFromAPI(call.date, call.flag, t)
      [] OTHER -> NoPartial

\* ------------------------------------------------------------ variables
VARIABLES
    now,        \* Date.now(), the real clock
    stored,     \* chrome.storage.local under 'timeTravelGlobalState': <<>> or <<state>>
    pending,    \* storage.onChanged events fired and not yet handled by the worker
    proc,       \* the callers of the State Store, one record each
    response,   \* the last answer a request got
    tab,        \* the browser's tabs: open or not, and the kind of URL shown
    ctx,        \* each tab's session storage (ContextState) for the allowed origin
    doc,        \* each tab's current document: the Clock Engine and the page
    reloadedTabs,   \* worker.ts reloadedTabs
    task,       \* the worker's applyGlobalStateToTab / ...ToAllTabs calls in flight
    forced,     \* per tab: reloads forced since the last navigation the user started
    seen,       \* per tab: the last zero-argument date read a page script made
    local,      \* per tab: the fake date set in this tab alone (Null: none)
    client,     \* a page's TimeTravelAPI client and the requests it has sent
    reply,      \* the last answer of the worker to a 'getGlobalState' message
    simple,     \* the standalone simple app: its page, its localStorage, its last read
    registry,   \* worker.ts activeTabs, the 'active' messages not yet handled, the tab in front
    engine      \* one document and the Clock Engine in it: storage, constructors, listeners

storeVars == <<now, stored, pending, proc, response>>
coordVars == <<tab, ctx, doc, reloadedTabs, task, forced>>
sideVars == <<seen, local, client, reply, simple, registry, engine>>
vars == <<now, stored, pending, proc, response, tab, ctx, doc, reloadedTabs, task, forced,
          seen, local, client, reply, simple, registry, engine>>

\* The callers, each running one request at a time: an extension page (the
\* popup's setGlobalFakeTime, or the storage.ts functions called directly as
\* scripts/debug.ts does), and a sender of API requests (a page talking to
\* the API bridge, or a sender of the worker message).
Procs == {"popup", "api"}

\* pc: "idle"; "msg" (the runtime message is on its way to the worker);
\* "read" (inside setGlobalState, awaiting getGlobalState); "write" (awaiting
\* chrome.storage.local.set, newState built); "remove" (awaiting
\* chrome.storage.local.remove). call is the storage.ts call in progress, at
\* the Date.now() it read (0 when it read none), queue the calls still to
\* make, fired the storage.onChanged events the request's writes have raised
\* so far.
IdleProc ==
    [pc |-> "idle", call |-> NoCall, at |-> 0, newState |-> DEFAULT_STATE,
     queue |-> <<>>, fired |-> 0]

\* An answer: setGlobalFakeTime, a storage.ts function or the worker's handler
\* returns (Success), setGlobalFakeTime throws PopupInvalid, the bridge posts
\* TIME_TRAVEL_RESPONSE with success: false and the error BridgeMissing or
\* BridgeInvalid.
Success == "success"
PopupInvalid == "Invalid date format!"
BridgeMissing == "fakeDate is required and must be a string"
BridgeInvalid == "Invalid date format"
NoResponse == "none"
Errors == {PopupInvalid, BridgeMissing, BridgeInvalid}

\* Whether a call reads Date.now().
ReadsNow(call) ==
    \/ call.op = "updateGlobalClockState" /\ call.flag # JsTrue /\ ~Truthy(call.ts)
    \/ call.op = "updateGlobalStateFromAPI" /\ ~Truthy(call.flag)

\* Begin the calls of `calls` (not empty) at real time t: the first one runs
\* up to the getGlobalState it awaits.
Begin(calls, t) ==
    [pc |-> "read", call |-> Head(calls), at |-> IF ReadsNow(Head(calls)) THEN t ELSE 0,
     newState |-> DEFAULT_STATE, queue |-> Tail(calls), fired |-> 0]

\* setGlobalFakeTime(enabled, fakeDate?, isClockStopped?): the storage.ts
\* calls it makes, in order; <<>> when it throws 'Invalid date format!'.
setGlobalFakeTime(enabled, fakeDate, isClockStopped) ==
    IF enabled /\ Truthy(fakeDate)
    THEN IF parseDate(fakeDate) = Null THEN <<>>
         ELSE << Call("updateGlobalFakeDate", parseDate(fakeDate), Undefined, Undefined),
                 Call("updateGlobalClockState",
                      Null, IF isClockStopped = Undefined THEN JsTrue ELSE isClockStopped,
                      Undefined),
                 Call("setGlobalEnabled", Null, JsTrue, Undefined) >>
    ELSE << Call("setGlobalEnabled", Null, JsFalse, Undefined),
            Call("updateGlobalFakeDate", Null, Undefined, Undefined),
            Call("updateGlobalClockState", Null, JsTrue, Null) >>

MayStart(p) == proc[p].pc = "idle"

\* The popup calls setGlobalFakeTime.
PopupRequest(enabled, fakeDate, isClockStopped) ==
    LET calls == setGlobalFakeTime(enabled, fakeDate, isClockStopped)
    IN  /\ MayStart("popup")
        /\ proc' = [proc EXCEPT !["popup"] =
                        IF calls = <<>> THEN IdleProc ELSE Begin(calls, now)]
        /\ response' = IF calls = <<>> THEN PopupInvalid ELSE response
        /\ UNCHANGED <<now, stored, pending, coordVars, sideVars>>

\* handleUpdateGlobalState without its isNaN test.
handleUpdateGlobalState_noDateTest(fakeDate, isClockStopped) ==
    IF ~Truthy(fakeDate) THEN <<>>
    ELSE << Call("updateGlobalStateFromAPI", fakeDate,
                 IF isClockStopped = Undefined THEN JsTrue ELSE isClockStopped,
                 Undefined) >>

\* api_bridge.ts handleUpdateGlobalState(data): the message it sends to the
\* worker; <<>> when it answers { success: false } itself.
handleUpdateGlobalState(fakeDate, isClockStopped) ==
    IF ~Truthy(fakeDate) THEN <<>>
    ELSE IF DateParse(fakeDate) = NaN THEN <<>>
    ELSE << Call("updateGlobalStateFromAPI", fakeDate,
                 IF isClockStopped = Undefined THEN JsTrue ELSE isClockStopped,
                 Undefined) >>

\* api_bridge.ts handleDisableTimeTravel: the message it sends to the worker.
handleDisableTimeTravel ==
    << Call("updateGlobalStateFromAPI", Null, JsTrue, Undefined) >>

\* A page posts TIME_TRAVEL_UPDATE_GLOBAL_STATE to the bridge.
BridgeUpdate(fakeDate, isClockStopped) ==
    LET msg == handleUpdateGlobalState(fakeDate, isClockStopped)
    IN  /\ MayStart("api")
        /\ proc' = [proc EXCEPT !["api"] =
                        IF msg = <<>> THEN IdleProc
                        ELSE [IdleProc EXCEPT !.pc = "msg", !.call = msg[1]]]
        /\ response' = IF msg # <<>> THEN response
                       ELSE IF Truthy(fakeDate) THEN BridgeInvalid ELSE BridgeMissing
        /\ UNCHANGED <<now, stored, pending, coordVars, sideVars>>

\* A page posts TIME_TRAVEL_DISABLE to the bridge.
BridgeDisable ==
    /\ MayStart("api")
    /\ proc' = [proc EXCEPT !["api"] =
                    [IdleProc EXCEPT !.pc = "msg", !.call = handleDisableTimeTravel[1]]]
    /\ UNCHANGED <<now, stored, pending, response, coordVars, sideVars>>

\* An extension context sends { msg: 'updateGlobalStateFromAPI', fakeDate,
\* isClockStopped? } to the worker itself (isClockStopped is optional in the
\* handler's message type).
DirectMessage(fakeDate, isClockStopped) ==
    /\ MayStart("api")
    /\ proc' = [proc EXCEPT !["api"] =
                    [IdleProc EXCEPT !.pc = "msg",
                                     !.call = Call("updateGlobalStateFromAPI", fakeDate,
                                                   isClockStopped, Undefined)]]
    /\ UNCHANGED <<now, stored, pending, response, coordVars, sideVars>>

\* The worker's onMessage listener takes the updateGlobalStateFromAPI
\* message: Date.now() is read here, then setGlobalState awaits its read.
HandleApiMessage ==
    /\ proc["api"].pc = "msg"
    /\ proc' = [proc EXCEPT !["api"] = Begin(<<@.call>>, now)]
    /\ UNCHANGED <<now, stored, pending, response, coordVars, sideVars>>

\* A direct call of updateGlobalClockState (as fixClockState of debug.ts makes).
ClockStateCall(isClockStopped, tickStartTimestamp) ==
    /\ MayStart("popup")
    /\ proc' = [proc EXCEPT !["popup"] =
                    Begin(<< Call("updateGlobalClockState", Null, isClockStopped,
                                  tickStartTimestamp) >>, now)]
    /\ UNCHANGED <<now, stored, pending, response, coordVars, sideVars>>

\* A direct call of clearGlobalState, up to its await.
ClearCall ==
    /\ MayStart("popup")
    /\ proc' = [proc EXCEPT !["popup"] =
                    [IdleProc EXCEPT !.pc = "remove",
                                     !.call = Call("clearGlobalState", Null, Undefined,
                                                   Undefined)]]
    /\ UNCHANGED <<now, stored, pending, response, coordVars, sideVars>>

\* chrome.storage fires onChanged for a key whose value changed. The count of
\* undelivered events stops at MaxPending (MaxPending: that many or more).
Fires(old, new) == IF old = new \/ pending = MaxPending THEN 0 ELSE 1

\* The events a write raises: one when the value under the key changes.
Raised(old, new) == IF old = new THEN 0 ELSE 1

\* setGlobalState: newState = { ...currentState, ...state }.
setGlobalState(currentState, state) == Merge(currentState, state)

\* setGlobalState, first await: getGlobalState answers and newState is built.
ReadStep(p) ==
    /\ proc[p].pc = "read"
    /\ proc' = [proc EXCEPT
                  ![p].newState = setGlobalState(getGlobalState(stored),
                                                 PartialOf(proc[p].call, proc[p].at)),
                  ![p].pc = "write"]
    /\ UNCHANGED <<now, stored, pending, response, coordVars, sideVars>>

\* setGlobalState, second await: chrome.storage.local.set stores newState.
\* The caller goes on to its next storage.ts call, or is done.
WriteStep(p) ==
    /\ proc[p].pc = "write"
    /\ stored' = <<proc[p].newState>>
    /\ pending' = pending + Fires(stored, stored')
    /\ proc' = [proc EXCEPT ![p] =
                    IF @.queue = <<>> THEN IdleProc
                    ELSE [Begin(@.queue, now) EXCEPT
                              !.fired = proc[p].fired + Raised(stored, stored')]]
    /\ response' = IF proc[p].queue = <<>> THEN Success ELSE response
    /\ UNCHANGED <<now, coordVars, sideVars>>

\* The answer of the worker's updateGlobalStateFromAPI handler, success
\* whether or not setGlobalState threw.
handlerAnswer_noCatch(setResolves) == Success

\* The answer of the worker's updateGlobalStateFromAPI handler: success after
\* setGlobalState, { success: false, error } from its catch.
StorageFailure == "chrome.storage.local.set rejected"
handlerAnswer(setResolves) == IF setResolves THEN Success ELSE StorageFailure

\* setGlobalState, second await, when chrome.storage.local.set rejects:
\* nothing is stored, setGlobalState rethrows, the caller makes none of its
\* remaining calls and gets the error (the API sender as the handler's answer).
WriteRejects(p) ==
    /\ proc[p].pc = "write"
    /\ proc' = [proc EXCEPT ![p] = IdleProc]
    /\ response' = handlerAnswer(FALSE)
    /\ UNCHANGED <<now, stored, pending, coordVars, sideVars>>

\* clearGlobalState: chrome.storage.local.remove answers.
RemoveStep(p) ==
    /\ proc[p].pc = "remove"
    /\ stored' = <<>>
    /\ pending' = pending + Fires(stored, stored')
    /\ proc' = [proc EXCEPT ![p] = IdleProc]
    /\ response' = Success
    /\ UNCHANGED <<now, coordVars, sideVars>>

\* Real time passes.
Tick ==
    /\ now < MaxNow
    /\ now' = now + 1
    /\ UNCHANGED <<stored, pending, proc, response, coordVars, sideVars>>

\* ------------------------------------------------------------ the worker
\* Tab ids, and the slots for the worker's calls in flight.
NTabs == 1
MaxTasks == 2
Tabs == 1..NTabs
Slots == 1..MaxTasks
NoTab == 0

\* The kinds of URL a tab shows: none yet, one that starts with an allowed
\* prefix, one with a restricted scheme (chrome://, about:, ...), another site.
UrlKinds == {"none", "allowed", "restricted", "other"}

\* isRestrictedUrl(url) and isAllowedWebsite(url), on the kind of the URL.
isRestrictedUrl(url) == url = "restricted"
\* A variant that takes every site for an allowed one.
isAllowedWebsite_anySite(url) == url \in UrlKinds
isAllowedWebsite(url) == url = "allowed"

ClosedTab == [open |-> FALSE, url |-> "none"]

\* ContextState: the two session storage keys (Null: the key is absent).
NoContext == [timeTravelDate |-> Null, timeTravelTickStartTimestamp |-> Null]

\* A fresh document: the Clock Engine is not installed, Date is the original,
\* no page script has run (started: "no", or the kind of Date the first page
\* script statement found: "fake" / "real").
FreshDoc == [installed |-> FALSE, faking |-> FALSE, started |-> "no"]

\* The session storage the injected func of applyGlobalStateToTab leaves,
\* given the state passed as its argument.
InjectedFunc(state) ==
    IF state.isGlobalEnabled /\ Truthy(state.fakeDate)
    THEN [timeTravelDate |-> state.fakeDate,
          timeTravelTickStartTimestamp |->
              IF Truthy(state.tickStartTimestamp) THEN state.tickStartTimestamp ELSE Null]
    ELSE NoContext

\* A toggle that installs the faking constructors whatever is stored.
timeTravelCheckToggle_always(context) == TRUE
\* timeTravelCheckToggle: Date is the faking constructor iff a fake date is stored.
timeTravelCheckToggle(context) == context.timeTravelDate # Null

\* fakeNowDate returns fake time iff it finds a fake date in session storage;
\* a zero-argument read goes through it only while Date is FakeDate.
ReadsFake(t) == doc[t].faking /\ ctx[t].timeTravelDate # Null

\* Number.parseInt of a stored anchor: the number whose decimal string it is,
\* NaN for a string that is none.
ParseInt(s) ==
    IF \E n \in 0..MaxReal : TimestampStr(n) = s
    THEN CHOOSE n \in 0..MaxReal : TimestampStr(n) = s
    ELSE NaN

\* getTickStartTimestamp: null (here <<>>) when the key is absent, else the
\* parsed number (here <<n>>).
getTickStartTimestamp(context) ==
    IF context.timeTravelTickStartTimestamp = Null THEN <<>>
    ELSE <<ParseInt(context.timeTravelTickStartTimestamp)>>

\* fakeNowDate without the elapsed real time.
fakeNowDate_noElapsed(context, realNow) ==
    IF context.timeTravelDate # Null THEN DateParse(context.timeTravelDate) ELSE realNow

\* fakeNowDate() at real time realNow, as a time value: the fake date, plus
\* the real time elapsed since the anchor when there is one; the real time
\* when no fake date is stored.
fakeNowDate(context, realNow) ==
    IF context.timeTravelDate # Null
    THEN LET fakeDateObject == DateParse(context.timeTravelDate)
             startTimestamp == getTickStartTimestamp(context)
         IN  IF startTimestamp = <<>> THEN fakeDateObject
             ELSE fakeDateObject + (realNow - startTimestamp[1])
    ELSE realNow

\* A zero-argument read: new Date() (FakeDate calls fakeNowDate) or Date.now()
\* (FakeDate.now is new Date().getTime()); the original Date gives real time.
ReadKinds == {"new Date()", "Date.now()"}
\* seen[t] keeps the last read of a page script of tab t: its real time, the
\* session storage and the Date constructor it found, and the value it got.
NoRead == [kind |-> "none", at |-> 0, context |-> NoContext, faking |-> FALSE, value |-> 0]
DateRead(t, kind) ==
    /\ tab[t].open /\ doc[t].installed /\ doc[t].started # "no"
    /\ seen' = [seen EXCEPT ![t] =
                    [kind |-> kind, at |-> now, context |-> ctx[t], faking |-> doc[t].faking,
                     value |-> IF doc[t].faking THEN fakeNowDate(ctx[t], now) ELSE now]]
    /\ UNCHANGED <<storeVars, coordVars, local, client, reply, simple, registry, engine>>

\* The popup's per-tab setFakeDate on the active tab t: the injected
\* inject.setFakeDate stores the date under timeTravelDate in that tab's
\* session storage. The write is made in the document itself, which gets no
\* storage event for it.
setFakeDate(t, dateString) ==
    /\ parseDate(dateString) # Null
    /\ tab[t].open /\ tab[t].url = "allowed"
    /\ ctx' = [ctx EXCEPT ![t].timeTravelDate = parseDate(dateString)]
    /\ local' = [local EXCEPT ![t] = parseDate(dateString)]
    /\ UNCHANGED <<storeVars, seen, client, reply, simple, registry, engine, tab, doc, reloadedTabs, task, forced>>

\* ---- the Clock Engine in one document (replace_date)
\* The two session storage keys of the engine, and a key of the page's own.
FAKE_DATE_STORAGE_KEY == "timeTravelDate"
TICK_START_STORAGE_KEY == "timeTravelTickStartTimestamp"
PageKey == "theme"
StorageKeys == {FAKE_DATE_STORAGE_KEY, TICK_START_STORAGE_KEY, PageKey}
StorageAreas == {"sessionStorage", "localStorage"}

\* The values a key may be given (Null: the key is removed).
KeyValues(key) ==
    IF key = FAKE_DATE_STORAGE_KEY THEN {Null, D2}
    ELSE IF key = TICK_START_STORAGE_KEY THEN {Null, TimestampStr(0)}
    ELSE {Null, "dark"}
EmptyStorage == [key \in StorageKeys |-> Null]
Storages == {st \in [StorageKeys -> {Null, D2, TimestampStr(0), "dark"}] :
                \A key \in StorageKeys : st[key] \in KeyValues(key)}

\* No document yet. A document: its storage areas (blocked: every access to
\* window.sessionStorage throws), the global Date and Intl.DateTimeFormat
\* ("genuine": the browser's own), what the content script captured as
\* OriginalDate and OriginalIntlDateTimeFormat, the 'storage' listeners it
\* registered, window.__timeTravelCheckToggle, and the last zero-argument read.
NoEngineRead == [kind |-> "none", at |-> 0, blocked |-> FALSE, value |-> 0]
NoDocument ==
    [loaded |-> FALSE, blocked |-> FALSE,
     session |-> EmptyStorage, localArea |-> EmptyStorage,
     Date |-> "genuine", Intl |-> "genuine",
     OriginalDate |-> "unset", OriginalIntl |-> "unset",
     listeners |-> 0, marker |-> FALSE, read |-> NoEngineRead]

\* getFromStorage without its try/catch, as if the access went through.
getFromStorage_noCatch(e, key) == e.session[key]
\* getFromStorage(key): null when window.sessionStorage throws.
getFromStorage(e, key) == IF e.blocked THEN Null ELSE e.session[key]

\* The ContextState the engine can read.
StorageSeen(e) ==
    [timeTravelDate |-> getFromStorage(e, FAKE_DATE_STORAGE_KEY),
     timeTravelTickStartTimestamp |-> getFromStorage(e, TICK_START_STORAGE_KEY)]

\* timeTravelCheckToggle in the document: Date and Intl.DateTimeFormat become
\* FakeDate and FakeIntlDateTimeFormat, or the captured constructors.
Toggle(e) ==
    IF timeTravelCheckToggle(StorageSeen(e))
    THEN [e EXCEPT !.Date = "FakeDate", !.Intl = "FakeIntlDateTimeFormat"]
    ELSE [e EXCEPT !.Date = e.OriginalDate, !.Intl = e.OriginalIntl]

\* The test of the 'storage' listener.
Relevant(area, key) ==
    area = "sessionStorage" /\ key \in {FAKE_DATE_STORAGE_KEY, TICK_START_STORAGE_KEY}

\* One 'storage' listener of the content script handles an event.
StorageListener(e, area, key) == IF Relevant(area, key) THEN Toggle(e) ELSE e

\* A variant of the guard that never finds the marker.
AlreadyInjected_never(e) == FALSE
\* The first test of the content script: window.__timeTravelCheckToggle is set.
AlreadyInjected(e) == e.marker

\* The listeners registered stop being counted at MaxListeners.
MaxListeners == 2

\* The content script as a whole: nothing when already injected; else it
\* captures Date and Intl.DateTimeFormat, runs timeTravelCheckToggle,
\* registers its 'storage' listener and sets window.__timeTravelCheckToggle.
ContentScript(e) ==
    IF AlreadyInjected(e) THEN e
    ELSE [Toggle([e EXCEPT !.OriginalDate = e.Date, !.OriginalIntl = e.Intl])
             EXCEPT !.listeners = IF @ < MaxListeners THEN @ + 1 ELSE @,
                    !.marker = TRUE]

\* A document loads in a tab whose session storage holds `session`.
EngineLoad(blocked, session) ==
    /\ engine' = [NoDocument EXCEPT !.loaded = TRUE, !.blocked = blocked,
                                    !.session = session,
                                    !.localArea = engine.localArea]
    /\ UNCHANGED <<storeVars, coordVars, seen, local, client, reply, simple, registry>>

\* The content script is injected into the document (again, when it is there).
EngineInstall ==
    /\ engine.loaded
    /\ engine' = ContentScript(engine)
    /\ UNCHANGED <<storeVars, coordVars, seen, local, client, reply, simple, registry>>

\* The area after setItem(key, value) or removeItem(key).
WriteKey(st, key, value) == [st EXCEPT ![key] = value]

\* Another document sharing the storage area (a same-origin frame of the tab;
\* for localStorage any page of the origin) changes a key: the browser raises
\* 'storage' in this document and every listener registered here runs.
FrameWrite(area, key, value) ==
    /\ engine.loaded /\ ~engine.blocked
    /\ value # (IF area = "sessionStorage" THEN engine.session[key] ELSE engine.localArea[key])
    /\ LET written == IF area = "sessionStorage"
                      THEN [engine EXCEPT !.session = WriteKey(@, key, value)]
                      ELSE [engine EXCEPT !.localArea = WriteKey(@, key, value)]
       IN  engine' = IF engine.listeners > 0
                     THEN StorageListener(written, area, key)
                     ELSE written
    /\ UNCHANGED <<storeVars, coordVars, seen, local, client, reply, simple, registry>>

\* A script of the document itself (the worker's injected func, send_active)
\* changes a session storage key: no 'storage' event is raised here.
OwnWrite(key, value) ==
    /\ engine.loaded /\ ~engine.blocked
    /\ value # engine.session[key]
    /\ engine' = [engine EXCEPT !.session = WriteKey(@, key, value)]
    /\ UNCHANGED <<storeVars, coordVars, seen, local, client, reply, simple, registry>>

\* Access to the site's storage is taken away while the document is open.
Block ==
    /\ engine.loaded /\ ~engine.blocked
    /\ engine' = [engine EXCEPT !.blocked = TRUE]
    /\ UNCHANGED <<storeVars, coordVars, seen, local, client, reply, simple, registry>>

\* A page script reads the date with no argument: FakeDate asks fakeNowDate,
\* the genuine Date gives real time.
EngineRead(kind) ==
    /\ engine.loaded /\ engine.marker
    /\ engine' = [engine EXCEPT !.read =
                      [kind |-> kind, at |-> now, blocked |-> engine.blocked,
                       value |-> IF engine.Date = "FakeDate"
                                 THEN fakeNowDate(StorageSeen(engine), now)
                                 ELSE now]]
    /\ UNCHANGED <<storeVars, coordVars, seen, local, client, reply, simple, registry>>

\* ---- the standalone simple app (simple/script.js)
\* The real clock of its page, well past the epoch: Date.now() is never 0.
Epoch == 1000
RealNow == Epoch + now

\* The stack the page's engine gives a chain of calls.
MaxStack == 3

\* What a date read gives: a time value, or the RangeError of a call chain
\* that exhausts the stack.
Ms(n) == [ok |-> TRUE, ms |-> n]
RangeError == [ok |-> FALSE, ms |-> 0]

\* TimeTravel.parseDate as a time value: <<>> for null.
TimeTravel_parseDate(dateString) ==
    IF dateString = EmptyStr \/ DateParse(dateString) = NaN THEN <<>>
    ELSE <<DateParse(dateString)>>

\* Date.prototype.toISOString of a fake date, and formatLocalTime of it as the
\* text put into dateInput (fake dates here are whole seconds, which the
\* format keeps).
toISOString(ms) == CHOOSE d \in ValidDates : DateParse(d) = ms
formatLocalTime(ms) == toISOString(ms)

\* The fields of a TimeTravel object; fakeDate and tickStartTimestamp are <<>>
\* for null.
Constructed ==
    [fakeDate |-> <<>>, tickStartTimestamp |-> <<>>, isClockStopped |-> FALSE,
     isEnabled |-> FALSE]

\* `this.tickStartTimestamp` as a condition.
TruthyTimestamp(ts) == ts # <<>> /\ ts[1] # 0

\* getFakeDate() called with `depth` frames below it. Date is looked up on
\* window at each call: with the override installed, new Date() and Date.now()
\* call getFakeDate again.
RECURSIVE getFakeDate(_, _, _, _)
getFakeDate(a, realNow, override, depth) ==
    IF depth > MaxStack THEN RangeError
    ELSE IF ~a.isEnabled \/ a.fakeDate = <<>>
         THEN IF override THEN getFakeDate(a, realNow, override, depth + 1) ELSE Ms(realNow)
    ELSE IF a.isClockStopped THEN Ms(a.fakeDate[1])
    ELSE IF TruthyTimestamp(a.tickStartTimestamp)
         THEN LET dateNow == IF override THEN getFakeDate(a, realNow, override, depth + 1)
                             ELSE Ms(realNow)
              IN  IF dateNow.ok
                  THEN Ms(a.fakeDate[1] + (dateNow.ms - a.tickStartTimestamp[1]))
                  ELSE RangeError
    ELSE Ms(a.fakeDate[1])

\* Date.now() and new Date() as the page's scripts find them: the original, or
\* the functions injectFakeDate put on window.
DateNow(a, realNow, override) ==
    IF override THEN getFakeDate(a, realNow, override, 1) ELSE Ms(realNow)

\* updateState() reads Date.now() for a running clock with an anchor.
updateStateThrows(a, realNow, override) ==
    /\ a.isEnabled /\ a.fakeDate # <<>>
    /\ ~a.isClockStopped /\ TruthyTimestamp(a.tickStartTimestamp)
    /\ ~DateNow(a, realNow, override).ok

\* The status text updateState shows.
Status(a) ==
    IF a.isEnabled /\ a.fakeDate # <<>>
    THEN IF a.isClockStopped THEN "Active (Clock Stopped)" ELSE "Active (Clock Running)"
    ELSE "Inactive"

\* saveState: the JSON put under 'timeTravelState'.
saveState(a) ==
    << [fakeDate |-> IF a.fakeDate = <<>> THEN Null ELSE toISOString(a.fakeDate[1]),
        tickStartTimestamp |-> a.tickStartTimestamp,
        isClockStopped |-> a.isClockStopped,
        isEnabled |-> a.isEnabled] >>

\* loadState on a freshly constructed object: the fields it leaves.
loadState(saved) ==
    IF saved = <<>> THEN Constructed
    ELSE [fakeDate |-> IF Truthy(saved[1].fakeDate) THEN <<DateParse(saved[1].fakeDate)>>
                       ELSE <<>>,
          tickStartTimestamp |-> saved[1].tickStartTimestamp,
          isClockStopped |-> saved[1].isClockStopped,
          isEnabled |-> saved[1].isEnabled]

\* injectFakeDate replaces window.Date when fake time is on with a date.
injectFakeDate(a) == a.isEnabled /\ a.fakeDate # <<>>

\* The tail of a handler: updateState(), then saveState(); an exception in
\* updateState leaves localStorage as it was.
UpdateAndSave(a, page) ==
    [page EXCEPT !.app = a,
                 !.saved = IF updateStateThrows(a, RealNow, page.override) THEN @
                           ELSE saveState(a)]

\* applyFakeDate()
applyFakeDate(page) ==
    LET parsedDate == TimeTravel_parseDate(page.dateInput)
        a1 == [page.app EXCEPT !.fakeDate = parsedDate, !.isEnabled = TRUE]
        dateNow == DateNow(a1, RealNow, page.override)
    IN  IF parsedDate = <<>> THEN page
        ELSE IF a1.isClockStopped THEN UpdateAndSave(a1, page)
        ELSE IF ~dateNow.ok THEN [page EXCEPT !.app = a1]
        ELSE UpdateAndSave([a1 EXCEPT !.tickStartTimestamp = <<dateNow.ms>>], page)

\* resetToRealTime()
resetToRealTime(page) ==
    [page EXCEPT !.app = Constructed, !.dateInput = EmptyStr, !.saved = saveState(Constructed)]

\* onEnableChange(enabled)
onEnableChange(page, enabled) ==
    LET parsedDate == TimeTravel_parseDate(page.dateInput)
    IN  IF ~enabled THEN resetToRealTime(page)
        ELSE IF parsedDate = <<>> THEN page
        ELSE UpdateAndSave([page.app EXCEPT !.fakeDate = parsedDate, !.isEnabled = TRUE], page)

\* onStopClockChange(stopClock)
onStopClockChange(page, stopClock) ==
    LET a1 == [page.app EXCEPT !.isClockStopped = stopClock]
        dateNow == DateNow(a1, RealNow, page.override)
    IN  IF stopClock THEN UpdateAndSave([a1 EXCEPT !.tickStartTimestamp = <<>>], page)
        ELSE IF ~dateNow.ok THEN [page EXCEPT !.app = a1]
        ELSE UpdateAndSave([a1 EXCEPT !.tickStartTimestamp = <<dateNow.ms>>], page)

\* window.testTimeTravel.setFakeDate(dateString)
testTimeTravel_setFakeDate(page, dateString) ==
    LET a1 == [page.app EXCEPT !.fakeDate = <<DateParse(dateString)>>, !.isEnabled = TRUE]
        dateNow == DateNow(a1, RealNow, page.override)
    IN  IF DateParse(dateString) = NaN THEN page
        ELSE IF ~dateNow.ok THEN [page EXCEPT !.app = a1]
        ELSE UpdateAndSave([a1 EXCEPT !.tickStartTimestamp = <<dateNow.ms>>], page)

\* No read made yet; a read keeps the fields and the Date it found.
NoSimpleRead ==
    [kind |-> "none", at |-> 0, app |-> Constructed, override |-> FALSE, value |-> Ms(0)]

\* The page on a first visit: nothing in localStorage, the constructor's
\* fields, the original Date.
FirstVisit ==
    [app |-> Constructed, saved |-> <<>>, dateInput |-> EmptyStr, override |-> FALSE,
     read |-> NoSimpleRead]

\* The user types into dateInput.
TypeDate(dateString) ==
    /\ simple.dateInput # dateString
    /\ simple' = [simple EXCEPT !.dateInput = dateString]
    /\ UNCHANGED <<storeVars, coordVars, seen, local, client, reply, registry, engine>>

\* A click or change event runs its handler.
ApplyClick ==
    /\ simple' = applyFakeDate(simple)
    /\ UNCHANGED <<storeVars, coordVars, seen, local, client, reply, registry, engine>>

ResetClick ==
    /\ simple' = resetToRealTime(simple)
    /\ UNCHANGED <<storeVars, coordVars, seen, local, client, reply, registry, engine>>

EnableToggle(enabled) ==
    /\ simple' = onEnableChange(simple, enabled)
    /\ UNCHANGED <<storeVars, coordVars, seen, local, client, reply, registry, engine>>

\* updateState disables stopClockToggle while fake time is off.
StopClockToggle(stopClock) ==
    /\ simple.app.isEnabled
    /\ simple.app.isClockStopped # stopClock
    /\ simple' = onStopClockChange(simple, stopClock)
    /\ UNCHANGED <<storeVars, coordVars, seen, local, client, reply, registry, engine>>

TestSetFakeDate(dateString) ==
    /\ simple' = testTimeTravel_setFakeDate(simple, dateString)
    /\ UNCHANGED <<storeVars, coordVars, seen, local, client, reply, registry, engine>>

\* The page is loaded again: new TimeTravel() runs loadState, then
\* injectFakeDate; dateInput shows the loaded fake date.
Reload ==
    /\ LET a == loadState(simple.saved)
       IN  simple' = [simple EXCEPT
                         !.app = a,
                         !.dateInput = IF a.fakeDate # <<>> THEN formatLocalTime(a.fakeDate[1])
                                       ELSE EmptyStr,
                         !.override = injectFakeDate(a)]
    /\ UNCHANGED <<storeVars, coordVars, seen, local, client, reply, registry, engine>>

\* A script of the page reads the date: new Date(), Date.now() or
\* testTimeTravel.getCurrentFakeDate() (getFakeDate).
SimpleReadKinds == {"new Date()", "Date.now()", "getFakeDate"}
SimpleRead(kind) ==
    /\ simple' = [simple EXCEPT !.read =
                      [kind |-> kind, at |-> RealNow, app |-> simple.app,
                       override |-> simple.override,
                       value |-> IF kind = "getFakeDate"
                                 THEN getFakeDate(simple.app, RealNow, simple.override, 0)
                                 ELSE DateNow(simple.app, RealNow, simple.override)]]
    /\ UNCHANGED <<storeVars, coordVars, seen, local, client, reply, registry, engine>>

\* ---- reading the State Store
\* getGlobalState with its try/catch: DEFAULT_STATE when chrome.storage.local.get
\* rejects, else what getGlobalState makes of the record.
getGlobalStateOrDefault(record, getRejects) ==
    IF getRejects THEN DEFAULT_STATE ELSE getGlobalState(record)

\* The answer sent for a 'getGlobalState' message, with the record that was
\* persisted when it was computed and whether the storage read failed.
NotAsked == [asked |-> FALSE, record |-> <<>>, rejected |-> FALSE, state |-> DEFAULT_STATE]

\* onMessage 'getGlobalState': getGlobalState().then(sendResponse).
GetGlobalStateMessage(getRejects) ==
    /\ reply' = [asked |-> TRUE, record |-> stored, rejected |-> getRejects,
               state |-> getGlobalStateOrDefault(stored, getRejects)]
    /\ UNCHANGED <<storeVars, coordVars, seen, local, client, simple, registry, engine>>

\* setGlobalState, first await, when chrome.storage.local.get rejects: the
\* catch of getGlobalState answers DEFAULT_STATE and newState is built on it.
ReadRejects(p) ==
    /\ proc[p].pc = "read"
    /\ proc' = [proc EXCEPT
                  ![p].newState = setGlobalState(getGlobalStateOrDefault(stored, TRUE),
                                                 PartialOf(proc[p].call, proc[p].at)),
                  ![p].pc = "write"]
    /\ UNCHANGED <<now, stored, pending, response, coordVars, sideVars>>

\* ---- the API client (time-travel-api.js)
\* Requests one client sends.
MaxRequests == 2
Requests == 1..MaxRequests

\* generateRequestId: `req_${Date.now()}_${++this.requestId}`.
generateRequestId(t, n) == <<"req", t, n>>
RequestIdValues == {generateRequestId(t, n) : t \in 0..MaxNow, n \in 0..MaxRequests}

\* A message event on the page's window.
ResponseType == "TIME_TRAVEL_RESPONSE"
NoEvent == [type |-> "none", requestId |-> generateRequestId(0, 0), success |-> FALSE]
Events ==
    [type : {ResponseType, "TIME_TRAVEL_GET_GLOBAL_STATE"}, requestId : RequestIdValues,
     success : BOOLEAN]

\* One sendMessage call: its requestId, whether responseHandler is still a
\* listener, the setTimeout callback ("none", "armed", "fired"), the calls
\* made to resolve or reject, and what the promise settled with ("pending"
\* until the first of them) on which event.
NoRequest ==
    [id |-> generateRequestId(0, 0), listening |-> FALSE, timer |-> "none", calls |-> 0,
     outcome |-> "unsent", by |-> NoEvent]

\* constructor: requestId = 0, pendingRequests empty.
NewClient == [requestId |-> 0, pendingRequests |-> {}, reqs |-> [r \in Requests |-> NoRequest]]

\* resolve / reject: only the first call settles the promise.
Settle(q, outcome, event) ==
    [q EXCEPT !.calls = @ + 1,
              !.outcome = IF q.outcome = "pending" THEN outcome ELSE @,
              !.by = IF q.outcome = "pending" THEN event ELSE @]

\* responseHandler taking a response whatever its requestId.
Matches_anyId(event, requestId) == event.type = ResponseType

\* responseHandler's test of an event.
Matches(event, requestId) ==
    event.type = ResponseType /\ event.requestId = requestId

\* responseHandler of request q run on an event.
responseHandler(q, event) ==
    IF Matches(event, q.id)
    THEN Settle([q EXCEPT !.listening = FALSE],
                IF event.success THEN "resolved" ELSE "rejected", event)
    ELSE q

\* sendMessage(type, data, timeout): a new id, the listener added, the id put
\* in pendingRequests, the message posted, the timer armed.
sendMessage ==
    /\ client.requestId < MaxRequests
    /\ LET n == client.requestId + 1
           id == generateRequestId(now, n)
       IN  client' = [requestId |-> n,
                      pendingRequests |-> client.pendingRequests \cup {id},
                      reqs |-> [client.reqs EXCEPT ![n] =
                                   [id |-> id, listening |-> TRUE, timer |-> "armed",
                                    calls |-> 0, outcome |-> "pending", by |-> NoEvent]]]
    /\ UNCHANGED <<storeVars, coordVars, seen, local, reply, simple, registry, engine>>

\* A message event is dispatched on the window (the bridge's sendResponse, or
\* any other postMessage): every responseHandler still listening runs.
Dispatch(event) ==
    /\ client.requestId > 0
    /\ client' = [client EXCEPT
                    !.reqs = [r \in Requests |->
                                 IF client.reqs[r].listening
                                 THEN responseHandler(client.reqs[r], event)
                                 ELSE client.reqs[r]],
                    !.pendingRequests =
                        @ \ {client.reqs[r].id : r \in {x \in Requests :
                                 client.reqs[x].listening /\ Matches(event, client.reqs[x].id)}}]
    /\ UNCHANGED <<storeVars, coordVars, seen, local, reply, simple, registry, engine>>

\* The setTimeout callback of request r runs.
Timeout(r) ==
    /\ client.reqs[r].timer = "armed"
    /\ LET q == [client.reqs[r] EXCEPT !.timer = "fired"]
       IN  IF q.id \in client.pendingRequests
           THEN client' = [client EXCEPT
                              !.pendingRequests = @ \ {q.id},
                              !.reqs[r] = Settle([q EXCEPT !.listening = FALSE],
                                                 "timeout", NoEvent)]
           ELSE client' = [client EXCEPT !.reqs[r] = q]
    /\ UNCHANGED <<storeVars, coordVars, seen, local, reply, simple, registry, engine>>

\* A call in flight. pc: "idle"; applyGlobalStateToAllTabs awaiting
\* getGlobalState ("allRead") or tabs.query ("allQuery"); applyGlobalStateToTab
\* awaiting getGlobalState ("read"), tabs.get ("get"), tabs.reload ("reload")
\* or scripting.executeScript ("inject"). todo: the tabs the all-tabs loop has
\* still to evaluate after this one.
IdleTask == [pc |-> "idle", tabId |-> NoTab, gs |-> DEFAULT_STATE, todo |-> <<>>]
EvalTask(t, todo) == [pc |-> "read", tabId |-> t, gs |-> DEFAULT_STATE, todo |-> todo]
PassTask == [IdleTask EXCEPT !.pc = "allRead"]

\* The slot a new call takes: the lowest free one.
FreeSlots == IF \E i \in Slots : task[i].pc = "idle"
             THEN {CHOOSE i \in Slots : /\ task[i].pc = "idle"
                                        /\ \A j \in Slots : task[j].pc = "idle" => i <= j}
             ELSE {}

\* applyGlobalStateToTab returned: the all-tabs loop goes on to its next tab.
Returned(e) == IF e.todo = <<>> THEN IdleTask ELSE EvalTask(Head(e.todo), Tail(e.todo))

\* A variant in which the error of one tab ends the whole pass.
Caught_endsPass(e) == IdleTask
\* tabs.reload or executeScript rejected: the catch of applyGlobalStateToTab
\* logs the error and the call returns as any other.
Caught(e) == Returned(e)

\* A variant without the return after tabs.reload: the call goes on to
\* executeScript.
Reloaded_fallsThrough(e) == [e EXCEPT !.pc = "inject"]
\* tabs.reload resolved: applyGlobalStateToTab returns at once ("Exit early").
Reloaded(e) == Returned(e)

\* The count of forced reloads stops at MaxForced.
MaxForced == 2
Bump(n) == IF n < MaxForced THEN n + 1 ELSE MaxForced

\* ---- the browser and the page
\* tabs.onCreated: a tab opens (its URL not yet known); the listener calls
\* applyGlobalStateToTab.
CreateTab(t) ==
    /\ ~tab[t].open
    /\ \E i \in FreeSlots : task' = [task EXCEPT ![i] = EvalTask(t, <<>>)]
    /\ tab' = [tab EXCEPT ![t] = [open |-> TRUE, url |-> "none"]]
    /\ UNCHANGED <<storeVars, sideVars, ctx, doc, reloadedTabs, forced>>

\* The user or the page starts a navigation: a new document; tabs.onUpdated
\* with status 'loading' calls applyGlobalStateToTab for an allowed URL.
\* Session storage belongs to the tab and the origin and outlives the document.
Navigate(t, url) ==
    /\ tab[t].open
    /\ url # "none"
    /\ IF ~isRestrictedUrl(url) /\ isAllowedWebsite(url)
       THEN \E i \in FreeSlots : task' = [task EXCEPT ![i] = EvalTask(t, <<>>)]
       ELSE UNCHANGED task
    /\ tab' = [tab EXCEPT ![t].url = url]
    /\ doc' = [doc EXCEPT ![t] = FreshDoc]
    /\ forced' = [forced EXCEPT ![t] = 0]
    /\ UNCHANGED <<storeVars, sideVars, ctx, reloadedTabs>>

\* TabRegistry's activeTabs is empty when the worker starts; no 'active'
\* message is on its way and no tab is in front.
NoRegistry == [activeTabs |-> {}, mail |-> {}, activeTab |-> NoTab]

\* tabs.onRemoved: the tab closes, and with it its session storage; the
\* listener deletes the tab id from activeTabs and reloadedTabs. A message the
\* tab's content script has sent stays on its way.
CloseTab(t) ==
    /\ tab[t].open
    /\ tab' = [tab EXCEPT ![t] = ClosedTab]
    /\ reloadedTabs' = reloadedTabs \ {t}
    /\ registry' = [registry EXCEPT !.activeTabs = @ \ {t},
                                    !.activeTab = IF @ = t THEN NoTab ELSE @]
    /\ ctx' = [ctx EXCEPT ![t] = NoContext]
    /\ doc' = [doc EXCEPT ![t] = FreshDoc]
    /\ forced' = [forced EXCEPT ![t] = 0]
    /\ UNCHANGED <<storeVars, seen, local, client, reply, simple, engine, task>>

\* tabs.onActivated: the user brings the tab to the front. The listener calls
\* updateBadgeAndTitle alone; it starts no applyGlobalStateToTab.
ActivateTab(t) ==
    /\ tab[t].open
    /\ registry.activeTab # t
    /\ registry' = [registry EXCEPT !.activeTab = t]
    /\ UNCHANGED <<storeVars, coordVars, seen, local, client, reply, simple, engine>>

\* What checkAndApplyGlobalState of send_active leaves in session storage,
\* given the answer to its 'getGlobalState' message.
checkAndApplyGlobalState(context, state) ==
    IF state.isGlobalEnabled /\ Truthy(state.fakeDate)
    THEN [timeTravelDate |-> state.fakeDate,
          timeTravelTickStartTimestamp |->
              IF Truthy(state.tickStartTimestamp) THEN state.tickStartTimestamp ELSE Null]
    ELSE context

\* send_active (initializeAndSendActive) in a document of an allowed site,
\* from the answer to its 'getGlobalState' message on: it writes the global
\* state into session storage and, when session storage then holds a fake
\* date, sends the 'active' message. One message per tab is on its way at a
\* time.
SendActive(t) ==
    LET new == checkAndApplyGlobalState(ctx[t], getGlobalState(stored))
    IN  /\ tab[t].open /\ tab[t].url = "allowed"
        /\ doc[t].installed
        /\ t \notin registry.mail
        /\ Truthy(new.timeTravelDate)
        /\ ctx' = [ctx EXCEPT ![t] = new]
        /\ registry' = [registry EXCEPT !.mail = @ \cup {t}]
        /\ UNCHANGED <<storeVars, seen, local, client, reply, simple, engine,
                       tab, doc, reloadedTabs, task, forced>>

\* onMessage 'active': the worker adds sender.tab.id to activeTabs, whatever
\* has become of the tab since the message was sent.
ActiveMessage(t) ==
    /\ t \in registry.mail
    /\ registry' = [registry EXCEPT !.mail = @ \ {t}, !.activeTabs = @ \cup {t}]
    /\ UNCHANGED <<storeVars, coordVars, seen, local, client, reply, simple, engine>>

\* The content script (replace_date) runs at document_start in a document of
\* an allowed site: it captures Date and calls timeTravelCheckToggle once.
Install(t) ==
    /\ tab[t].open /\ tab[t].url = "allowed"
    /\ ~doc[t].installed
    /\ doc' = [doc EXCEPT ![t].installed = TRUE,
                          ![t].faking = timeTravelCheckToggle(ctx[t])]
    /\ UNCHANGED <<storeVars, sideVars, tab, ctx, reloadedTabs, task, forced>>

\* The first statement of a page script runs (after the document_start
\* content script) and finds Date replaced or not.
PageStart(t) ==
    /\ tab[t].open /\ tab[t].url = "allowed"
    /\ doc[t].installed
    /\ doc[t].started = "no"
    /\ doc' = [doc EXCEPT ![t].started = IF doc[t].faking THEN "fake" ELSE "real"]
    /\ UNCHANGED <<storeVars, sideVars, tab, ctx, reloadedTabs, task, forced>>

\* ---- worker.ts
\* storage.onChanged listener: clears reloadedTabs and calls
\* applyGlobalStateToAllTabs.
OnChanged ==
    /\ pending > 0
    /\ pending' = pending - 1
    /\ reloadedTabs' = {}
    /\ \E i \in FreeSlots : task' = [task EXCEPT ![i] = PassTask]
    /\ UNCHANGED <<now, stored, proc, response, tab, ctx, doc, forced, sideVars>>

\* onMessage 'reapplyGlobalState': calls applyGlobalStateToAllTabs without
\* awaiting it and answers { success: true }.
Reapply ==
    /\ \E i \in FreeSlots : task' = [task EXCEPT ![i] = PassTask]
    /\ response' = Success
    /\ UNCHANGED <<now, stored, pending, proc, tab, ctx, doc, reloadedTabs, forced, sideVars>>

\* applyGlobalStateToAllTabs goes past its first test unless global mode is off.
AllTabsGoesOn(globalState) == globalState.isGlobalEnabled

\* applyGlobalStateToAllTabs, first await: getGlobalState answers.
AllRead(i) ==
    /\ task[i].pc = "allRead"
    /\ task' = [task EXCEPT ![i] =
                    IF AllTabsGoesOn(getGlobalState(stored))
                    THEN [@ EXCEPT !.pc = "allQuery"]
                    ELSE IdleTask]
    /\ UNCHANGED <<storeVars, sideVars, tab, ctx, doc, reloadedTabs, forced>>

\* The tabs of a tabs.query({}) answer that pass the loop's test, in order.
RECURSIVE QueryTabs(_)
QueryTabs(t) ==
    IF t \notin DOMAIN tab THEN <<>>
    ELSE (IF tab[t].open /\ tab[t].url # "none" /\ ~isRestrictedUrl(tab[t].url)
             /\ isAllowedWebsite(tab[t].url)
          THEN <<t>> ELSE <<>>) \o QueryTabs(t + 1)

\* applyGlobalStateToAllTabs, second await: tabs.query answers and the loop
\* calls applyGlobalStateToTab for its first tab.
AllQuery(i) ==
    /\ task[i].pc = "allQuery"
    /\ task' = [task EXCEPT ![i] = Returned([IdleTask EXCEPT !.todo = QueryTabs(1)])]
    /\ UNCHANGED <<storeVars, sideVars, tab, ctx, doc, reloadedTabs, forced>>

\* applyGlobalStateToTab, first await: getGlobalState answers.
EvalRead(i) ==
    /\ task[i].pc = "read"
    /\ task' = [task EXCEPT ![i].gs = getGlobalState(stored), ![i].pc = "get"]
    /\ UNCHANGED <<storeVars, sideVars, tab, ctx, doc, reloadedTabs, forced>>

\* The first-load test of applyGlobalStateToTab.
NeedsReload(globalState, tabId, reloaded) ==
    globalState.isGlobalEnabled /\ Truthy(globalState.fakeDate) /\ tabId \notin reloaded

\* applyGlobalStateToTab, second await: tabs.get answers. A missing, URL-less,
\* restricted or not allowed tab ends the call; else the tab is either marked
\* in reloadedTabs and tabs.reload is called, or executeScript is called.
EvalGet(i) ==
    LET e == task[i]
        t == e.tabId
        skip == \/ ~tab[t].open
                \/ tab[t].url = "none"
                \/ isRestrictedUrl(tab[t].url)
                \/ ~isAllowedWebsite(tab[t].url)
        reload == ~skip /\ NeedsReload(e.gs, t, reloadedTabs)
    IN  /\ e.pc = "get"
        /\ task' = [task EXCEPT ![i] =
                        IF skip THEN Returned(e)
                        ELSE [e EXCEPT !.pc = IF reload THEN "reload" ELSE "inject"]]
        /\ reloadedTabs' = IF reload THEN reloadedTabs \cup {t} ELSE reloadedTabs
        /\ forced' = IF reload THEN [forced EXCEPT ![t] = Bump(@)] ELSE forced
        /\ UNCHANGED <<storeVars, sideVars, tab, ctx, doc>>

\* chrome.tabs.reload takes effect: a new document of the same URL, and
\* tabs.onUpdated ('loading') calls applyGlobalStateToTab again for an allowed
\* URL. On a closed tab tabs.reload rejects and the call ends in its catch.
EvalReload(i) ==
    LET e == task[i]
        t == e.tabId
        after == [task EXCEPT ![i] = Reloaded(e)]
    IN  /\ e.pc = "reload"
        /\ IF tab[t].open
           THEN /\ doc' = [doc EXCEPT ![t] = FreshDoc]
                /\ IF tab[t].url # "none" /\ ~isRestrictedUrl(tab[t].url)
                      /\ isAllowedWebsite(tab[t].url)
                   THEN \E j \in Slots :
                            /\ after[j].pc = "idle"
                            /\ \A k \in Slots : after[k].pc = "idle" => j <= k
                            /\ task' = [after EXCEPT ![j] = EvalTask(t, <<>>)]
                   ELSE task' = after
           ELSE /\ task' = [task EXCEPT ![i] = Caught(e)]
                /\ UNCHANGED doc
        /\ UNCHANGED <<storeVars, sideVars, tab, ctx, reloadedTabs, forced>>

\* scripting.executeScript runs the injected func in every frame of the tab
\* (allFrames: true): the frame in which it runs first writes session
\* storage. A storage event reaches only the other documents sharing the
\* storage area: the top document's listener runs timeTravelCheckToggle when
\* a same-origin child frame (which a started page may hold) wrote first and
\* changed a key. On a closed tab, or a tab gone to another site,
\* nothing of this tab's ContextState is written.
EvalInject(i) ==
    LET e == task[i]
        t == e.tabId
        new == InjectedFunc(e.gs)
    IN  /\ e.pc = "inject"
        /\ task' = [task EXCEPT ![i] = IF tab[t].open THEN Returned(e) ELSE Caught(e)]
        /\ IF tab[t].open /\ tab[t].url = "allowed"
           THEN /\ ctx' = [ctx EXCEPT ![t] = new]
                /\ \E first \in {"top"} \cup
                                (IF doc[t].started # "no" THEN {"child"} ELSE {}) :
                       doc' = IF first = "child" /\ doc[t].installed /\ new # ctx[t]
                              THEN [doc EXCEPT ![t].faking = timeTravelCheckToggle(new)]
                              ELSE doc
           ELSE UNCHANGED <<ctx, doc>>
        /\ UNCHANGED <<storeVars, sideVars, tab, reloadedTabs, forced>>

\* -------------------------------------------------------- specifications
\* The state after the extension has started: nothing stored, no request and
\* no call of the worker in flight, no tab open.
Init ==
    /\ now = 0
    /\ stored = <<>>
    /\ pending = 0
    /\ proc = [p \in Procs |-> IdleProc]
    /\ response = NoResponse
    /\ tab = [t \in Tabs |-> ClosedTab]
    /\ ctx = [t \in Tabs |-> NoContext]
    /\ doc = [t \in Tabs |-> FreshDoc]
    /\ reloadedTabs = {}
    /\ task = [i \in Slots |-> IdleTask]
    /\ forced = [t \in Tabs |-> 0]
    /\ seen = [t \in Tabs |-> NoRead]
    /\ local = [t \in Tabs |-> Null]
    /\ client = NewClient
    /\ reply = NotAsked
    /\ simple = FirstVisit
    /\ registry = NoRegistry
    /\ engine = NoDocument

\* The State Store and all its callers.
StoreNext ==
    \/ \E enabled \in BOOLEAN, fakeDate \in {Undefined, BadDate, D1},
          isClockStopped \in OptBool :
           PopupRequest(enabled, fakeDate, isClockStopped)
    \/ \E fakeDate \in {Undefined, EmptyStr, BadDate, D2}, isClockStopped \in OptBool :
           BridgeUpdate(fakeDate, isClockStopped)
    \/ BridgeDisable
    \/ \E isClockStopped \in OptBool : DirectMessage(D2, isClockStopped)
    \/ HandleApiMessage
    \/ \E isClockStopped \in {JsTrue, JsFalse}, tickStartTimestamp \in {Undefined, TimestampStr(0)} :
           ClockStateCall(isClockStopped, tickStartTimestamp)
    \/ ClearCall
    \/ \E p \in Procs : ReadStep(p) \/ WriteStep(p) \/ RemoveStep(p)
    \/ Tick

WorkerNext ==
    \/ OnChanged
    \/ \E i \in Slots : AllRead(i) \/ AllQuery(i) \/ EvalRead(i)
    \/ \E i \in Slots : EvalGet(i) \/ EvalReload(i) \/ EvalInject(i)

\* The State Store and its callers alone: no tab opens, and the worker's
\* storage.onChanged listener is left out.
SpecStore == Init /\ [][StoreNext]_vars

\* The whole system but the page: the popup's disable request and the API's
\* requests, the worker and the tabs. Here a request starts when no other is
\* at work (overlapping requests are SpecStore's subject).
NoneAtWork == \A p \in Procs : proc[p].pc = "idle"
CallerNext ==
    \/ NoneAtWork /\ PopupRequest(FALSE, Undefined, Undefined)
    \/ \E isClockStopped \in {JsTrue, JsFalse} :
           NoneAtWork /\ BridgeUpdate(D2, isClockStopped)
    \/ NoneAtWork /\ BridgeDisable
    \/ HandleApiMessage
    \/ \E p \in Procs : ReadStep(p) \/ WriteStep(p)

TabsNext ==
    \/ \E t \in Tabs : CreateTab(t) \/ CloseTab(t)
    \/ \E t \in Tabs, url \in UrlKinds : Navigate(t, url)

Next == CallerNext \/ WorkerNext \/ TabsNext

Spec == Init /\ [][Next]_vars

\* A page of an allowed site and the Clock Engine in it, while the API turns
\* global mode on.
PageNext ==
    \/ NoneAtWork /\ BridgeUpdate(D2, JsTrue)
    \/ HandleApiMessage
    \/ ReadStep("api") \/ WriteStep("api")
    \/ \E t \in Tabs : CreateTab(t) \/ Navigate(t, "allowed") \/ Install(t) \/ PageStart(t)
    \/ \E t \in Tabs, kind \in ReadKinds : DateRead(t, kind)

NextPage == PageNext \/ WorkerNext
SpecPage == Init /\ [][NextPage]_vars
\* ------------------------------------------------------ the State Store
\* What getGlobalState returns now.
Current == getGlobalState(stored)

\* C1: in every reachable state of the persisted state, isClockStopped is true
\* if and only if tickStartTimestamp is null.
C1_StoppedIffNoAnchor ==
    Current.isClockStopped <=> (Current.tickStartTimestamp = Null)

\* C2: in every reachable state of the persisted state, fakeDate is null if
\* and only if isGlobalEnabled is false.
C2_NoDateIffDisabled ==
    (Current.fakeDate = Null) <=> ~Current.isGlobalEnabled

\* C8: a request whose fakeDate does not parse, through the bridge or the
\* popup, is answered with an error in the step that makes it; that step
\* leaves the stored record and the pending change events as they were (a
\* getGlobalState after it returns what one before it did), starts no
\* storage.ts call and sends no message; and the date never reaches the store
\* or a call in flight.
C8_InvalidDateRejected ==
    /\ [](\A p \in Procs : proc[p].call.date # BadDate /\ Current.fakeDate # BadDate)
    /\ [][\A isClockStopped \in OptBool :
            /\ PopupRequest(TRUE, BadDate, isClockStopped) =>
                  /\ response' = PopupInvalid
                  /\ stored' = stored /\ pending' = pending
                  /\ getGlobalState(stored') = getGlobalState(stored)
                  /\ proc'["popup"].pc = "idle"
            /\ BridgeUpdate(BadDate, isClockStopped) =>
                  /\ response' = BridgeInvalid
                  /\ stored' = stored /\ pending' = pending
                  /\ getGlobalState(stored') = getGlobalState(stored)
                  /\ proc'["api"].pc = "idle"]_vars

\* A request was rejected for its date while a fake date was stored.
C8_Witness ==
    /\ response \in {PopupInvalid, BridgeInvalid}
    /\ Current.fakeDate \in ValidDates

C10_NoLostUpdate ==
    [][\A p \in Procs :
          WriteStep(p) =>
              \A f \in FieldNames \ PartialOf(proc[p].call, proc[p].at).fields :
                  getGlobalState(stored')[f] = getGlobalState(stored)[f]]_vars

\* ------------------------------------------------------ the Coordinator
\* Nothing is left to run: no request at work, no change event undelivered,
\* no call of the worker in flight.
Quiescent ==
    /\ NoneAtWork
    /\ pending = 0
    /\ \A i \in Slots : task[i].pc = "idle"

\* An open tab showing an allowed, not restricted URL.
Allowed(t) ==
    tab[t].open /\ ~isRestrictedUrl(tab[t].url) /\ isAllowedWebsite(tab[t].url)

\* C3: between two navigations that the page or the user starts, the worker
\* forces a reload of a tab at most once.
C3_OneForcedReload == \A t \in Tabs : forced[t] <= 1

\* C4: in a document where a zero-argument date read returns fake time, the
\* first page script statement did not find the real Date.
C4_FakedFromTheStart == \A t \in Tabs : ReadsFake(t) => doc[t].started # "real"

\* C5: once global mode is disabled (isGlobalEnabled = false) and nothing is
\* left to run, no open allowed tab holds a fake date in its session storage.
C5_DisabledClearsTabs ==
    (Quiescent /\ ~Current.isGlobalEnabled) =>
        \A t \in Tabs : Allowed(t) => ctx[t] = NoContext

\* C6: once nothing is left to run after a change, every open allowed tab's
\* session storage mirrors the stored state: the fake date and the anchor when
\* enabled with a fake date, both keys absent otherwise.
C6_TabsMirrorStore ==
    Quiescent => \A t \in Tabs : Allowed(t) => ctx[t] = InjectedFunc(Current)

\* C7: when the stored state is enabled (every change then starts an
\* evaluation of the tab that reads it) and all evaluations have finished, a
\* tab that holds a fake date holds the stored one, not an older snapshot.
C7_NewerStateWins ==
    (Quiescent /\ Current.isGlobalEnabled /\ Truthy(Current.fakeDate)) =>
        \A t \in Tabs :
            (Allowed(t) /\ ctx[t] # NoContext) => ctx[t] = InjectedFunc(Current)

\* ------------------------------------------------- change notifications
\* C11: each request (one setGlobalFakeTime call, one API update or disable)
\* raises one storage.onChanged event and no more: when its last write lands,
\* the events its writes have raised, this one included, are at most one (none
\* when the request leaves the stored value as it was).
C11_OneEventPerRequest ==
    [][\A p \in Procs :
          (WriteStep(p) /\ proc[p].queue = <<>>) =>
              proc[p].fired + Raised(stored, stored') <= 1]_vars

\* ------------------------------------------------------ the Clock Engine
\* The session storage contents the worker's injected func can leave.
ContextStates ==
    {NoContext} \cup
    {[timeTravelDate |-> d, timeTravelTickStartTimestamp |-> a] :
        d \in ValidDates, a \in {Null} \cup {TimestampStr(n) : n \in 0..MaxReal}}

\* A page of an allowed site, loaded with any of these in its session storage:
\* the content script has run and the page reads the date as real time passes.
InitClock ==
    /\ now = 0
    /\ stored = <<>>
    /\ pending = 0
    /\ proc = [p \in Procs |-> IdleProc]
    /\ response = NoResponse
    /\ tab = [t \in Tabs |-> [open |-> TRUE, url |-> "allowed"]]
    /\ ctx \in [Tabs -> ContextStates]
    /\ doc = [t \in Tabs |->
                 [installed |-> TRUE, faking |-> timeTravelCheckToggle(ctx[t]),
                  started |-> IF timeTravelCheckToggle(ctx[t]) THEN "fake" ELSE "real"]]
    /\ reloadedTabs = {}
    /\ task = [i \in Slots |-> IdleTask]
    /\ forced = [t \in Tabs |-> 0]
    /\ seen = [t \in Tabs |-> NoRead]
    /\ local = [t \in Tabs |-> Null]
    /\ client = NewClient
    /\ reply = NotAsked
    /\ simple = FirstVisit
    /\ registry = NoRegistry
    /\ engine = NoDocument

\* Real time passes on the page.
Elapse ==
    /\ now < MaxReal
    /\ now' = now + 1
    /\ UNCHANGED <<stored, pending, proc, response, coordVars, sideVars>>

ClockNext ==
    \/ Elapse
    \/ \E t \in Tabs, kind \in ReadKinds : DateRead(t, kind)

SpecClock == InitClock /\ [][ClockNext]_vars

\* The last read in tab t found this fake date and this anchor (Null: none)
\* in session storage.
ReadWith(t, d, a) ==
    /\ seen[t] # NoRead
    /\ seen[t].context = [timeTravelDate |-> d, timeTravelTickStartTimestamp |-> a]

\* C12: with an anchor in session storage, fakeNowDate (a read through the
\* faking constructor) at real time r returns fakeDate + (r - anchor),
\* computed at the read; and a later read never returns an earlier instant.
C12_RunningClock ==
    /\ [](\A t \in Tabs, d \in ValidDates, a \in 0..MaxReal :
              (ReadWith(t, d, TimestampStr(a)) /\ seen[t].faking) =>
                  seen[t].value = DateParse(d) + (seen[t].at - a))
    /\ [][\A t \in Tabs :
              (seen[t] # NoRead /\ seen'[t] # NoRead) => seen'[t].value >= seen[t].value]_vars

\* A running clock was read after real time had passed its anchor.
C12_Witness ==
    \E t \in Tabs, d \in ValidDates, a \in 0..MaxReal :
        ReadWith(t, d, TimestampStr(a)) /\ seen[t].faking /\ seen[t].at > a

\* C13: a zero-argument read, new Date() or Date.now(), that finds a fake
\* date and no anchor in session storage returns the fake date itself.
C13_StoppedClock ==
    \A t \in Tabs, d \in ValidDates :
        ReadWith(t, d, Null) => seen[t].value = DateParse(d)

\* C14: the write the worker makes for an API update {fakeDate: d,
\* isClockStopped: true} is answered with success and leaves a record from
\* which getGlobalState returns fakeDate = d, isClockStopped = true and
\* tickStartTimestamp = null, whatever was stored before.
C14_RoundTrip ==
    [][(/\ WriteStep("api")
        /\ proc["api"].call.op = "updateGlobalStateFromAPI"
        /\ proc["api"].call.flag = JsTrue) =>
           LET got == getGlobalState(stored')
           IN  /\ response' = Success
               /\ got.fakeDate = proc["api"].call.date
               /\ got.isClockStopped
               /\ got.tickStartTimestamp = Null]_vars

\* The handler is about to write {D2, stopped} over a stored record with
\* another fake date and a running clock.
C14_Witness ==
    /\ proc["api"].pc = "write"
    /\ proc["api"].call.op = "updateGlobalStateFromAPI"
    /\ proc["api"].call.flag = JsTrue /\ proc["api"].call.date = D2
    /\ Current.fakeDate = D1 /\ Current.tickStartTimestamp # Null

\* C16: the write the worker makes for the bridge's TIME_TRAVEL_DISABLE
\* message, answered with success, leaves fakeDate = null and
\* isGlobalEnabled = false.
C16_DisableDisables ==
    [][(/\ WriteStep("api")
        /\ proc["api"].call = handleDisableTimeTravel[1]) =>
           LET got == getGlobalState(stored')
           IN  response' = Success => (got.fakeDate = Null /\ ~got.isGlobalEnabled)]_vars

\* C17: an API update without isClockStopped reaches the worker from the
\* bridge with isClockStopped: true, and the write the worker makes for a
\* message whose isClockStopped is true or undefined leaves isClockStopped =
\* true and tickStartTimestamp = null.
C17_OmittedMeansFrozen ==
    [][/\ BridgeUpdate(D2, Undefined) => proc'["api"].call.flag = JsTrue
       /\ (/\ WriteStep("api")
           /\ proc["api"].call.op = "updateGlobalStateFromAPI"
           /\ proc["api"].call.flag \in {JsTrue, Undefined}) =>
              LET got == getGlobalState(stored')
              IN  got.isClockStopped /\ got.tickStartTimestamp = Null]_vars

\* ------------------------------------------------------- the API client
ClientNext ==
    \/ sendMessage
    \/ \E event \in Events : Dispatch(event)
    \/ \E r \in Requests : Timeout(r)
    \/ Tick

SpecClient == Init /\ [][ClientNext]_vars

\* C18: a request the client sent has resolve or reject called at most once,
\* and once when its timeout has run; it resolved only on a
\* TIME_TRAVEL_RESPONSE with its requestId and success = true, was rejected
\* only on one with success = false or by its timeout; while it is pending
\* it is in pendingRequests and when settled it is not; and nothing that
\* happens after it settled (a late response, the timer) changes its outcome.
C18_SettlesOnce ==
    /\ [](\A r \in Requests :
              LET q == client.reqs[r]
              IN  /\ q.calls <= 1
                  /\ q.timer = "fired" => q.calls = 1
                  /\ q.outcome = "resolved" =>
                        (q.by.type = ResponseType /\ q.by.requestId = q.id /\ q.by.success)
                  /\ q.outcome = "rejected" =>
                        (q.by.type = ResponseType /\ q.by.requestId = q.id /\ ~q.by.success)
                  /\ q.outcome = "timeout" => (q.timer = "fired" /\ q.by = NoEvent)
                  /\ q.outcome = "pending" =>
                        (q.listening /\ q.id \in client.pendingRequests /\ q.calls = 0)
                  /\ q.outcome \in {"resolved", "rejected", "timeout"} =>
                        (~q.listening /\ q.id \notin client.pendingRequests /\ q.calls = 1))
    /\ [][\A r \in Requests :
              client.reqs[r].outcome \in {"resolved", "rejected", "timeout"} =>
                  /\ client'.reqs[r].outcome = client.reqs[r].outcome
                  /\ client'.reqs[r].by = client.reqs[r].by
                  /\ client'.reqs[r].calls = 1]_vars

\* One request timed out and another resolved, both timers having run, with
\* two requests sent at the same Date.now().
C18_Witness ==
    /\ client.reqs[1].outcome = "timeout"
    /\ client.reqs[2].outcome = "resolved" /\ client.reqs[2].timer = "fired"
    /\ client.reqs[1].id[2] = client.reqs[2].id[2]

\* ----------------------------------------------------- reapplyGlobalState
\* The worker asked to reapply, while the API turns global mode on and tabs
\* open and navigate; the only all-tabs passes are those the message starts.
ReapplyNext ==
    \/ NoneAtWork /\ BridgeUpdate(D2, JsTrue)
    \/ HandleApiMessage
    \/ ReadStep("api") \/ WriteStep("api")
    \/ \E t \in Tabs : CreateTab(t) \/ Navigate(t, "allowed") \/ Install(t)
    \/ Reapply
    \/ \E i \in Slots : AllRead(i) \/ AllQuery(i) \/ EvalRead(i)
    \/ \E i \in Slots : EvalGet(i) \/ EvalReload(i) \/ EvalInject(i)

SpecReapply == Init /\ [][ReapplyNext]_vars

\* C19: a reapplyGlobalState message is answered with success, and the pass
\* it starts goes on, whatever getGlobalState returns, to evaluate every open
\* tab of an allowed site.
C19_ReapplyEvaluatesAll ==
    [][/\ Reapply => response' = Success
       /\ \A i \in Slots :
             /\ AllRead(i) => task'[i].pc = "allQuery"
             /\ AllQuery(i) =>
                   \A t \in Tabs :
                       Allowed(t) =>
                           \/ task'[i].tabId = t
                           \/ \E k \in DOMAIN task'[i].todo : task'[i].todo[k] = t]_vars

\* ------------------------------------------------- State Store reads
\* The popup sets, changes and clears the global state while the worker is
\* asked for it; the storage read may fail.
ReadNext ==
    \/ \E fakeDate \in {D1, D2}, isClockStopped \in {JsTrue, JsFalse} :
           PopupRequest(TRUE, fakeDate, isClockStopped)
    \/ ClearCall
    \/ ReadStep("popup") \/ WriteStep("popup") \/ RemoveStep("popup")
    \/ \E getRejects \in BOOLEAN : GetGlobalStateMessage(getRejects)
    \/ Tick

SpecRead == Init /\ [][ReadNext]_vars

\* C20: a read of the State Store returns DEFAULT_STATE when no record is
\* persisted and when the storage read fails; clearGlobalState leaves no
\* record, so the read that follows it returns DEFAULT_STATE whatever was
\* written before.
C20_DefaultWhenAbsent ==
    /\ [](reply.asked =>
              /\ reply.rejected => reply.state = DEFAULT_STATE
              /\ reply.record = <<>> => reply.state = DEFAULT_STATE)
    /\ [][\A p \in Procs :
              RemoveStep(p) =>
                  /\ stored' = <<>>
                  /\ \A getRejects \in BOOLEAN :
                         getGlobalStateOrDefault(stored', getRejects) = DEFAULT_STATE]_vars

\* The worker answered with the default on a failed read while a record that
\* differs from the default was persisted, and the store was cleared since.
C20_Witness ==
    /\ reply.asked /\ reply.rejected
    /\ reply.record # <<>> /\ reply.record # <<DEFAULT_STATE>>
    /\ stored = <<>> /\ proc["popup"].pc = "idle" /\ response = Success

\* ------------------------------------------------- failing store writes
\* API requests whose write may fail, beside popup requests that succeed.
FailNext ==
    \/ \E isClockStopped \in OptBool : BridgeUpdate(D2, isClockStopped)
    \/ BridgeDisable
    \/ HandleApiMessage
    \/ \E isClockStopped \in {JsTrue, JsFalse} : PopupRequest(TRUE, D1, isClockStopped)
    \/ \E p \in Procs : ReadStep(p) \/ WriteStep(p)
    \/ WriteRejects("api")
    \/ Tick

SpecFail == Init /\ [][FailNext]_vars

\* C21: when the write of an API update fails, the sender is answered with a
\* failure and never with success, the persisted record is as it was and no
\* storage.onChanged event is raised.
C21_FailedWriteReported ==
    [][WriteRejects("api") =>
          /\ response' # Success /\ response' = StorageFailure
          /\ stored' = stored
          /\ pending' = pending]_vars

\* An API update was answered with the failure while the record a popup
\* request wrote is persisted.
C21_Witness ==
    /\ response = StorageFailure
    /\ proc["api"].pc = "idle"
    /\ stored # <<>> /\ Current.fakeDate = D1

\* ------------------------------------------------------- the simple app
SimpleNext ==
    \/ \E dateString \in {BadDate, D1, D2} : TypeDate(dateString)
    \/ ApplyClick
    \/ ResetClick
    \/ \E enabled \in BOOLEAN : EnableToggle(enabled)
    \/ \E stopClock \in BOOLEAN : StopClockToggle(stopClock)
    \/ TestSetFakeDate(D2)
    \/ Reload
    \/ \E kind \in SimpleReadKinds : SimpleRead(kind)
    \/ Tick

SpecSimple == Init /\ [][SimpleNext]_vars

\* C22: a getFakeDate call made while the status is 'Active (Clock Running)'
\* returns fakeDate + (real now - the real instant kept as the start of the
\* running clock).
C22_SimpleRunningClock ==
    LET r == simple.read
    IN  (r.kind = "getFakeDate" /\ Status(r.app) = "Active (Clock Running)") =>
            /\ r.value.ok
            /\ r.app.tickStartTimestamp # <<>>
            /\ r.value.ms = r.app.fakeDate[1] + (r.at - r.app.tickStartTimestamp[1])

\* C23: a zero-argument read made while fake time is off after a reset
\* returns the real time.
C23_SimpleResetReadsReal ==
    LET r == simple.read
    IN  (r.kind # "none" /\ r.app = Constructed /\ simple.saved = saveState(Constructed)) =>
            r.value = Ms(r.at)

\* C24: a reload leaves fakeDate, tickStartTimestamp, isClockStopped and
\* isEnabled as they were before it.
C24_SimpleReloadRestores ==
    [][Reload => simple'.app = simple.app]_vars

\* ------------------------------------------------------ forced reloads
\* The configuration is written once (the API enables global mode with a fake
\* date) while tabs open, navigate to an allowed site and close.
OnceNext ==
    \/ stored = <<>> /\ NoneAtWork /\ BridgeUpdate(D2, JsTrue)
    \/ HandleApiMessage
    \/ ReadStep("api") \/ WriteStep("api")
    \/ \E t \in Tabs : CreateTab(t) \/ Navigate(t, "allowed") \/ CloseTab(t)
    \/ OnChanged
    \/ \E i \in Slots : AllRead(i) \/ AllQuery(i) \/ EvalRead(i)
    \/ \E i \in Slots : EvalGet(i) \/ EvalReload(i) \/ EvalInject(i)

SpecOnce == Init /\ [][OnceNext]_vars

\* C25: once the configuration has been written and no request is at work,
\* an evaluation of a tab already force-reloaded since its last navigation
\* (the evaluation that the reload's 'loading' event starts is one) finds the
\* tab in reloadedTabs and goes on to inject: it does not reload again.
C25_NoReloadCycle ==
    [][\A i \in Slots :
          (/\ EvalGet(i)
           /\ stored # <<>> /\ NoneAtWork
           /\ Allowed(task[i].tabId)
           /\ forced[task[i].tabId] >= 1) =>
              /\ task[i].tabId \in reloadedTabs
              /\ task'[i].pc = "inject"]_vars

\* C26: an evaluation forces a reload only when the GlobalConfig it read is
\* enabled with a fake date, the tab is not in reloadedTabs and the tab's URL
\* is allowed and not restricted, and the tab is in reloadedTabs when the
\* reload is issued; and no reload is forced while GlobalConfig is disabled
\* or has no fake date.
C26_ReloadOnlyWhenEnabled ==
    [][\A i \in Slots :
          (EvalGet(i) /\ task'[i].pc = "reload") =>
              LET e == task[i]
                  t == e.tabId
              IN  /\ e.gs.isGlobalEnabled /\ Truthy(e.gs.fakeDate)
                  /\ t \notin reloadedTabs
                  /\ Allowed(t)
                  /\ t \in reloadedTabs'
                  /\ Current.isGlobalEnabled /\ Truthy(Current.fakeDate)]_vars

\* C27: when the Clock Engine installs in the document that a forced reload
\* produced, the tab's session storage already holds timeTravelDate, equal to
\* the stored fake date.
C27_SeededBeforeInstall ==
    [][\A t \in Tabs :
          (/\ Install(t)
           /\ forced[t] >= 1
           /\ \A i \in Slots : ~(task[i].pc = "reload" /\ task[i].tabId = t)) =>
              /\ ctx[t].timeTravelDate # Null
              /\ ctx[t].timeTravelDate = Current.fakeDate]_vars

\* ------------------------------------------------------ skipped tabs
\* The API turns global mode on while tabs open, navigate to URLs of every
\* kind and close.
SkipNext ==
    \/ NoneAtWork /\ BridgeUpdate(D2, JsTrue)
    \/ HandleApiMessage
    \/ ReadStep("api") \/ WriteStep("api")
    \/ \E t \in Tabs : CreateTab(t) \/ CloseTab(t)
    \/ \E t \in Tabs, url \in UrlKinds : Navigate(t, url)
    \/ OnChanged
    \/ \E i \in Slots : AllRead(i) \/ AllQuery(i) \/ EvalRead(i)
    \/ \E i \in Slots : EvalGet(i) \/ EvalReload(i) \/ EvalInject(i)

SpecSkip == Init /\ [][SkipNext]_vars

EventsNext ==
    \/ NoneAtWork /\ BridgeUpdate(D2, JsTrue)
    \/ NoneAtWork /\ PopupRequest(FALSE, Undefined, Undefined)
    \/ HandleApiMessage
    \/ \E p \in Procs : ReadStep(p) \/ WriteStep(p)
    \/ \E t \in Tabs : CreateTab(t) \/ Navigate(t, "allowed") \/ CloseTab(t)
    \/ \E t \in Tabs : ActivateTab(t)
    \/ OnChanged
    \/ \E i \in Slots : AllRead(i) \/ AllQuery(i) \/ EvalRead(i)
    \/ \E i \in Slots : EvalGet(i) \/ EvalReload(i) \/ EvalInject(i)

SpecEvents == Init /\ [][EventsNext]_vars

\* C28: a tab's creation, the start of its navigation and its activation each
\* start an evaluation of that tab, and every change of the configuration,
\* a change to disabled too, starts one for every open tab of an allowed site.
C28_EventsStartEvaluation ==
    [][/\ \A t \in Tabs :
             (CreateTab(t) \/ Navigate(t, "allowed") \/ ActivateTab(t)) =>
                 \E i \in Slots : task[i].pc = "idle" /\ task'[i] = EvalTask(t, <<>>)
       /\ OnChanged => \E i \in Slots : task[i].pc = "idle" /\ task'[i] = PassTask
       /\ \A i \in Slots :
             /\ AllRead(i) => task'[i].pc = "allQuery"
             /\ AllQuery(i) =>
                   \A t \in Tabs :
                       Allowed(t) => task'[i].pc = "read" /\ task'[i].tabId = t]_vars

\* ------------------------------------------------------ TabRegistry
\* The API turns global mode on while tabs open, navigate to an allowed site
\* and close, and their content scripts report themselves active.
RegistryNext ==
    \/ NoneAtWork /\ BridgeUpdate(D2, JsTrue)
    \/ HandleApiMessage
    \/ ReadStep("api") \/ WriteStep("api")
    \/ \E t \in Tabs : CreateTab(t) \/ Navigate(t, "allowed") \/ CloseTab(t)
    \/ \E t \in Tabs : Install(t) \/ SendActive(t) \/ ActiveMessage(t)
    \/ OnChanged
    \/ \E i \in Slots : AllRead(i) \/ AllQuery(i) \/ EvalRead(i)
    \/ \E i \in Slots : EvalGet(i) \/ EvalReload(i) \/ EvalInject(i)

SpecRegistry == Init /\ [][RegistryNext]_vars

\* C30: a closed tab, once no 'active' message of it and no call of the worker
\* is left to run, is in neither activeTabs nor reloadedTabs.
C30_RegistryOnlyOpenTabs ==
    \A t \in Tabs :
        (/\ ~tab[t].open
         /\ t \notin registry.mail
         /\ \A i \in Slots : task[i].pc = "idle") =>
            /\ t \notin registry.activeTabs
            /\ t \notin reloadedTabs

\* ------------------------------------------------------ the all-tabs pass
\* Two tabs, so that a pass has a tab left after the one that fails.
NPassTabs == 2
PassTabs == 1..NPassTabs

\* The extension has started as in Init, in a browser that can hold NPassTabs
\* tabs.
InitPass ==
    /\ now = 0
    /\ stored = <<>>
    /\ pending = 0
    /\ proc = [p \in Procs |-> IdleProc]
    /\ response = NoResponse
    /\ tab = [t \in PassTabs |-> ClosedTab]
    /\ ctx = [t \in PassTabs |-> NoContext]
    /\ doc = [t \in PassTabs |-> FreshDoc]
    /\ reloadedTabs = {}
    /\ task = [i \in Slots |-> IdleTask]
    /\ forced = [t \in PassTabs |-> 0]
    /\ seen = [t \in PassTabs |-> NoRead]
    /\ local = [t \in PassTabs |-> Null]
    /\ client = NewClient
    /\ reply = NotAsked
    /\ simple = FirstVisit
    /\ registry = NoRegistry
    /\ engine = NoDocument

\* The API turns global mode on once; tabs open, go to an allowed site, leave
\* it and close while the passes that the change and reapplyGlobalState
\* messages start go through them.
PassNext ==
    \/ stored = <<>> /\ NoneAtWork /\ BridgeUpdate(D2, JsTrue)
    \/ HandleApiMessage
    \/ ReadStep("api") \/ WriteStep("api")
    \/ \E t \in PassTabs : CreateTab(t) \/ CloseTab(t)
    \/ \E t \in PassTabs, url \in {"allowed", "other"} : Navigate(t, url)
    \/ OnChanged
    \/ Reapply
    \/ \E i \in Slots : AllRead(i) \/ AllQuery(i) \/ EvalRead(i)
    \/ \E i \in Slots : EvalGet(i) \/ EvalReload(i) \/ EvalInject(i)

SpecPass == InitPass /\ [][PassNext]_vars

\* tabs.get, tabs.reload or executeScript of this call finds its tab closed
\* or gone from the allowed site.
TabFails(i) ==
    LET t == task[i].tabId
    IN  /\ task[i].pc \in {"get", "reload", "inject"}
        /\ ~tab[t].open \/ tab[t].url # "allowed"

\* C31: when tabs.get, tabs.reload or executeScript fails for a tab of an
\* all-tabs pass, the pass goes on to its next tab and keeps the rest of its
\* list; no other call in flight is touched.
C31_FailuresIsolated ==
    [][\A i \in Slots :
          (/\ EvalGet(i) \/ EvalReload(i) \/ EvalInject(i)
           /\ TabFails(i)
           /\ task[i].todo # <<>>) =>
              /\ task'[i].pc = "read"
              /\ task'[i].tabId = Head(task[i].todo)
              /\ task'[i].todo = Tail(task[i].todo)
              /\ \A j \in Slots \ {i} : task'[j] = task[j]]_vars

\* A pass is about to reload or inject into a tab that has closed, with
\* another open tab of an allowed site left in its list.
C31_Witness ==
    \E i \in Slots :
        /\ task[i].pc \in {"reload", "inject"}
        /\ ~tab[task[i].tabId].open
        /\ task[i].todo # <<>>
        /\ Allowed(Head(task[i].todo))

\* ------------------------------------------------------ seeding a tab
\* An extension context sends updateGlobalStateFromAPI to the worker, with
\* the clock flag stated or omitted, while a tab opens on an allowed site and
\* the worker evaluates it.
SeedNext ==
    \/ \E isClockStopped \in OptBool : NoneAtWork /\ DirectMessage(D2, isClockStopped)
    \/ HandleApiMessage
    \/ ReadStep("api") \/ WriteStep("api")
    \/ \E t \in Tabs : CreateTab(t) \/ Navigate(t, "allowed")
    \/ OnChanged
    \/ \E i \in Slots : AllRead(i) \/ AllQuery(i) \/ EvalRead(i)
    \/ \E i \in Slots : EvalGet(i) \/ EvalReload(i) \/ EvalInject(i)

SpecSeed == Init /\ [][SeedNext]_vars

\* C32: an injection into an open tab of an allowed site leaves in its
\* session storage the state the evaluation read: the fake date and the
\* anchor (no anchor key when it is null) when enabled with a fake date, no
\* key otherwise; and a context so seeded with a fake date has an anchor, a
\* running clock, exactly when that state has isClockStopped = false.
C32_SeedCopiesConfig ==
    [][\A i \in Slots :
          LET t == task[i].tabId
              gs == task[i].gs
          IN  (EvalInject(i) /\ Allowed(t)) =>
                  /\ IF gs.isGlobalEnabled /\ gs.fakeDate # Null
                     THEN /\ ctx'[t].timeTravelDate = gs.fakeDate
                          /\ ctx'[t].timeTravelTickStartTimestamp = gs.tickStartTimestamp
                     ELSE ctx'[t] = NoContext
                  /\ ctx'[t].timeTravelDate # Null =>
                         (ctx'[t].timeTravelTickStartTimestamp # Null <=> ~gs.isClockStopped)]_vars

\* ------------------------------------------------------ change notifications
\* C33: every write that changes a session storage key of a tab whose
\* document has the Clock Engine installed, by the worker's injected func or
\* by send_active, is followed by a run of timeTravelCheckToggle: after the
\* step, Date is the faking constructor iff the new storage holds a fake date.
C33_WritesNotifyEngine ==
    [][\A t \in Tabs :
          (/\ (\E i \in Slots : EvalInject(i) /\ task[i].tabId = t) \/ SendActive(t)
           /\ Allowed(t)
           /\ doc[t].installed
           /\ ctx'[t] # ctx[t]) =>
              doc'[t].faking = timeTravelCheckToggle(ctx'[t])]_vars

\* ------------------------------------------------------ the Clock Engine's document
\* A document loads, the content script is injected (more than once), other
\* frames and the document's own scripts write the storage areas, access to
\* storage may be blocked, and page scripts read the date as time passes.
EngineNext ==
    \/ \E blocked \in BOOLEAN, session \in Storages : EngineLoad(blocked, session)
    \/ EngineInstall
    \/ \E area \in StorageAreas, key \in StorageKeys :
           \E value \in KeyValues(key) : FrameWrite(area, key, value)
    \/ \E key \in StorageKeys : \E value \in KeyValues(key) : OwnWrite(key, value)
    \/ Block
    \/ \E kind \in ReadKinds : EngineRead(kind)
    \/ Tick

SpecEngine == Init /\ [][EngineNext]_vars

\* Date and Intl.DateTimeFormat are the faking constructors if the engine
\* finds a fake date in session storage, the genuine ones if not.
TogglesTo(e) ==
    IF getFromStorage(e, FAKE_DATE_STORAGE_KEY) # Null
    THEN e.Date = "FakeDate" /\ e.Intl = "FakeIntlDateTimeFormat"
    ELSE e.Date = "genuine" /\ e.Intl = "genuine"

\* C34: after the install, and after every notification for the fake-date or
\* the anchor key of session storage, Date and Intl.DateTimeFormat are the
\* faking constructors iff session storage then holds a fake date, the
\* genuine ones otherwise; running the toggle again on the same storage
\* changes nothing; a notification for another key or for localStorage leaves
\* both constructors as they were.
C34_ToggleFollowsStorage ==
    /\ [](engine.marker => Toggle(Toggle(engine)) = Toggle(engine))
    /\ [][/\ (EngineInstall /\ ~engine.marker) => TogglesTo(engine')
          /\ \A area \in StorageAreas, key \in StorageKeys :
                \A value \in KeyValues(key) :
                    (FrameWrite(area, key, value) /\ engine.marker) =>
                        IF area = "sessionStorage" /\ key # PageKey
                        THEN TogglesTo(engine')
                        ELSE /\ engine'.Date = engine.Date
                             /\ engine'.Intl = engine.Intl]_vars

\* The installed engine was notified that the fake date went away: a fake
\* date is no longer stored and Date is the genuine constructor again.
C34_Witness ==
    /\ engine.marker /\ engine.listeners = 1
    /\ engine.session[FAKE_DATE_STORAGE_KEY] = Null
    /\ engine.session[TICK_START_STORAGE_KEY] # Null
    /\ engine.Date = "genuine"
    /\ engine.read.kind # "none" /\ engine.read.value # engine.read.at

\* C35: the content script injected into a document where it already ran
\* changes nothing; one 'storage' listener at most is registered, and what
\* was captured as the original Date and Intl.DateTimeFormat is never a
\* faking constructor.
C35_ReinstallIsNoOp ==
    /\ [](/\ engine.listeners <= 1
          /\ engine.OriginalDate \in {"unset", "genuine"}
          /\ engine.OriginalIntl \in {"unset", "genuine"})
    /\ [][(EngineInstall /\ engine.marker) => engine' = engine]_vars

\* The content script has run in a document where Date is now FakeDate: a
\* second injection would find the faking constructors in place.
C35_Witness ==
    /\ engine.marker /\ engine.listeners = 1
    /\ engine.Date = "FakeDate" /\ engine.Intl = "FakeIntlDateTimeFormat"
    /\ engine.OriginalDate = "genuine"

\* C36: while every access to session storage throws, the install leaves the
\* genuine constructors in place, a run of the toggle restores them where
\* FakeDate was in place, and a zero-argument read returns real time
\* whichever constructor is in place.
C36_BlockedStorageReadsReal ==
    /\ [](engine.read.blocked => engine.read.value = engine.read.at)
    /\ []((engine.blocked /\ engine.marker) =>
              /\ Toggle(engine).Date = "genuine"
              /\ Toggle(engine).Intl = "genuine")
    /\ [][(engine.blocked /\ EngineInstall /\ ~engine.marker) =>
              engine'.Date = "genuine" /\ engine'.Intl = "genuine"]_vars

\* A page script read the date through FakeDate after access to a session
\* storage that holds a fake date was taken away.
C36_Witness ==
    /\ engine.blocked /\ engine.marker
    /\ engine.session[FAKE_DATE_STORAGE_KEY] # Null
    /\ engine.Date = "FakeDate"
    /\ engine.read.blocked

\* ------------------------------------------------- failing store reads
\* One request at a time, from the popup or the API; the read inside a
\* setGlobalState call may fail.
MergeNext ==
    \/ \E enabled \in BOOLEAN, isClockStopped \in {JsTrue, JsFalse} :
           NoneAtWork /\ PopupRequest(enabled, D1, isClockStopped)
    \/ \E isClockStopped \in {JsTrue, JsFalse} :
           NoneAtWork /\ BridgeUpdate(D2, isClockStopped)
    \/ HandleApiMessage
    \/ \E p \in Procs : ReadStep(p) \/ ReadRejects(p) \/ WriteStep(p)
    \/ Tick

SpecMerge == Init /\ [][MergeNext]_vars

\* C37: a write of setGlobalState, made while no other caller is at work,
\* leaves every field its partial does not name as it was stored before the
\* write, whether the read inside the call succeeded or failed.
C37_WriteMergesOntoStored ==
    [][\A p \in Procs :
          (WriteStep(p) /\ \A q \in Procs \ {p} : proc[q].pc = "idle") =>
              \A f \in FieldNames \ PartialOf(proc[p].call, proc[p].at).fields :
                  stored # <<>> => getGlobalState(stored')[f] = stored[1][f]]_vars

\* ------------------------------------------------------ whole configurations
\* The API sets a running clock on one date, the popup a stopped clock on
\* another, one request at a time, while a tab of an allowed site is
\* evaluated.
WholeNext ==
    \/ NoneAtWork /\ BridgeUpdate(D2, JsFalse)
    \/ NoneAtWork /\ PopupRequest(TRUE, D1, JsTrue)
    \/ HandleApiMessage
    \/ \E p \in Procs : ReadStep(p) \/ WriteStep(p)
    \/ \E t \in Tabs : CreateTab(t) \/ Navigate(t, "allowed")
    \/ OnChanged
    \/ \E i \in Slots : AllRead(i) \/ AllQuery(i) \/ EvalRead(i)
    \/ \E i \in Slots : EvalGet(i) \/ EvalReload(i) \/ EvalInject(i)

SpecWhole == Init /\ [][WholeNext]_vars

\* The configurations these two requests ask for, each as a whole: what the
\* store holds once all the writes of one request have landed.
RequestedStates ==
    {Merge(DEFAULT_STATE, updateGlobalStateFromAPI(D2, JsFalse, t)) : t \in 0..MaxNow}
    \cup
    {LET calls == setGlobalFakeTime(TRUE, D1, JsTrue)
     IN  Merge(Merge(Merge(DEFAULT_STATE, PartialOf(calls[1], 0)),
                     PartialOf(calls[2], 0)),
               PartialOf(calls[3], 0))}

\* C38: the session storage of a tab holds nothing, or what the injected func
\* makes of a configuration that one request asked for as a whole: never the
\* fake date of one request with the anchor of another.
C38_SeedsWholeConfigs ==
    \A t \in Tabs :
        ctx[t] \in {NoContext} \cup {InjectedFunc(state) : state \in RequestedStates}

\* ------------------------------------------------------ the guard at rest
\* C39: once the configuration has changed to disabled and the worker has
\* come to rest (no request, no change event and no call in flight),
\* reloadedTabs is empty, so that the evaluations of a later enabled
\* configuration force a reload of each open tab of an allowed site.
C39_GuardEmptyWhenDisabled ==
    (/\ stored # <<>> /\ ~getGlobalState(stored).isGlobalEnabled
     /\ NoneAtWork /\ pending = 0
     /\ \A i \in Slots : task[i].pc = "idle") =>
        reloadedTabs = {}

\* ------------------------------------------------------ reload or inject
\* C40: one call of applyGlobalStateToTab either forces a reload or injects,
\* never both: the tabs.get answer sends it to one of the two; the call that
\* reloads writes nothing into the tab's session storage and is over with
\* the reload; the call that injects marks no tab and reloads none.
C40_ReloadOrInject ==
    [][\A i \in Slots :
          /\ EvalGet(i) =>
                /\ (task'[i].pc = "reload") <=> (task[i].tabId \in reloadedTabs' \ reloadedTabs)
                /\ task'[i].pc = "inject" => reloadedTabs' = reloadedTabs /\ forced' = forced
          /\ EvalReload(i) =>
                /\ ctx' = ctx
                /\ task'[i].pc \in {"idle", "read"}
          /\ EvalInject(i) =>
                /\ reloadedTabs' = reloadedTabs /\ forced' = forced
                /\ task'[i].pc \in {"idle", "read"}
                /\ \A t \in Tabs : doc'[t].installed = doc[t].installed]_vars

\* A call has forced the reload of a tab and is over, the tab's session
\* storage is as it was (empty), and the call the reload started is about to
\* inject.
C40_Witness ==
    \E t \in Tabs : \E i \in Slots :
        /\ forced[t] = 1 /\ t \in reloadedTabs
        /\ ctx[t] = NoContext
        /\ task[i].tabId = t /\ task[i].pc = "inject"
        /\ \A j \in Slots : task[j].pc # "reload"

\* ------------------------------------------------- a tab's own fake date
\* A tab of an allowed site whose fake date the popup sets for that tab
\* alone, while the API turns global mode on and the worker evaluates the tab.
LocalNext ==
    \/ NoneAtWork /\ BridgeUpdate(D2, JsTrue)
    \/ HandleApiMessage
    \/ ReadStep("api") \/ WriteStep("api")
    \/ \E t \in Tabs : CreateTab(t) \/ Navigate(t, "allowed") \/ Install(t)
    \/ \E t \in Tabs : setFakeDate(t, D1)

NextLocal == LocalNext \/ WorkerNext
SpecLocal == Init /\ [][NextLocal]_vars

\* C15: a fake date set in one tab alone stays in that tab's session storage:
\* no evaluation of the tab by the worker overwrites or removes it.
C15_LocalOverrideKept ==
    \A t \in Tabs : local[t] # Null => ctx[t].timeTravelDate = local[t]
====
